---- MODULE Spec2Model ----
(***************************************************************************)
(* A model of the twansi mesh layer: ReliableMesh (net/reliable.py), the   *)
(* envelope codec and shard authenticator (net/messages.py, identity.py),  *)
(* Membership and NetsplitTracker (net/membership.py, net/netsplit.py),    *)
(* and the part of GameNode (main.py) and Store (state/store_sqlite.py)    *)
(* that originates, applies and forwards events.                           *)
(*                                                                         *)
(* Time is counted in tenths of a second: 0.5 s is 5, 30 s is 300.         *)
(* A 64-bit acknowledgment mask is the set of its set bit positions        *)
(* (a subset of 0..63): x | (1 << k) is x \cup {k}, (x >> k) & 1 is        *)
(* k \in x, and (x << k) & (2^64 - 1) is {b + k : b \in x} \cap 0..63.     *)
(* A Python dict is a function with a finite domain.                       *)
(***************************************************************************)
EXTENDS Integers, FiniteSets, Sequences, TLC

VARIABLES
    mesh,                 \* per node: the ReliableMesh fields
    membership,           \* per node: Membership.peers, in insertion order
    netsplit,             \* per node: the NetsplitTracker fields
    store,                \* per node: the Store tables the mesh reads and writes
    local_event_counter,  \* per node: GameNode.local_event_counter
    net,                  \* datagrams in flight between the nodes
    now,                  \* time.time()
    retransmit_wake,      \* per node: when retransmit_loop's sleep ends
    received,             \* per node: the (sender, seq) of the envelopes it accepted
    transmitted,          \* per node and sequence number: the transmissions of its datagram
    runtime,              \* per node: GameNode.runtime (the shutdown flag)
    task,                 \* per node: the tasks run_async creates for the three loops
    thread,               \* per node: where the event loop's handler and the UI thread stand
    gossip,               \* a GossipBuffer, and the identifiers its add has accepted so far
    last                  \* the last step taken and what it sent and delivered

vars == <<mesh, membership, netsplit, store, local_event_counter, net, now,
          retransmit_wake, received, transmitted, runtime, task, thread, gossip, last>>

(* ------------------------------ bounds --------------------------------- *)

\* A node originates no envelope with a sequence number above MaxSeq.
MaxSeq == 2
\* Events a node originates locally.
MaxEvents == 1
MaxAckEvents == 3
MaxAckSeq == 4
MaxHello == 2
\* Datagrams the network holds at once; what does not fit is lost.
MaxInFlight == 2
\* Datagrams a node takes in from one source address.
MaxArrivals == 2
\* The clock stops here.
MaxNow == 64
SendBy == 3
MaxUnanswered == 1
\* The replies the node sends to the foreign host, and the end of the clock
\* of the netsplit scenario in tenths of a second.
MaxContacts == 3
\* The envelopes a node sends in the snapshot scenario.
MaxSnapSeq == 3
\* The end of the clock of the snapshot scenario in tenths of a second.
MaxSnapNow == 30
MaxClock == 640
DrainSendBy == 1

\* The end of the clock of the burst scenario in tenths of a second.
MaxBurstNow == 10

\* The end of the clock of the shutdown scenario in tenths of a second.
MaxShutdownNow == 5

\* The envelopes the foreign host sends in the window scenario.
MaxWindowArrivals == 4

\* The envelopes the node sends in the send scenario, and the end of its
\* clock in tenths of a second.
MaxSendSeq == 2
MaxSendNow == 5

\* The envelopes a node originates in the runs of sends, ACK-only replies
\* and retransmissions.
MaxOriginated == 2

\* The fan-out scenario: the peers a PEER_LIST names, the datagrams the
\* foreign peer sends within a second, and the time it ends at (240.1 s, when
\* a peer last seen at the start is no longer healthy for the fan-out).
MaxListed == 4
MaxFanoutArrivals == 2
MaxFanoutNow == 2401

\* The gossip scenario ends after 64 s, eight announcements of every node.
MaxGossipNow == 640

\* The calls of send and broadcast, and the datagrams that arrive, in the
\* runs with make_envelope as net/messages.py defines it.
MaxWireSeq == 3
MaxWireArrivals == 2

\* The GossipBuffer of the runs: max_items (5000 by default), the size of
\* the set of seen identifiers above which it is pruned (20000 in the code),
\* and the number of event identifiers that are added.
MaxItems == 2
PruneThreshold == 3
MaxIds == 5

(* ------------------------------ dicts ---------------------------------- *)

Get(f, k, dflt) == IF k \in DOMAIN f THEN f[k] ELSE dflt

Put(f, k, v) == [x \in DOMAIN f \cup {k} |-> IF x = k THEN v ELSE f[x]]

Del(f, k) == [x \in DOMAIN f \ {k} |-> f[x]]

EmptyDict == [x \in {} |-> 0]

Min(a, b) == IF a <= b THEN a ELSE b

Max(a, b) == IF a >= b THEN a ELSE b

RECURSIVE isqrt(_)
isqrt(n) == IF n <= 0 THEN 0 ELSE
    LET r == isqrt(n - 1) IN IF (r + 1) * (r + 1) <= n THEN r + 1 ELSE r

\* The sequences that list every element of S once.
RECURSIVE Orders(_)
Orders(S) == IF S = {} THEN {<<>>} ELSE
    UNION {{<<x>> \o o : o \in Orders(S \ {x})} : x \in S}

(* --------------------------- configuration ----------------------------- *)

Nodes == {"A", "B"}

\* Identity.sender_id: a node is named by its identifier.
sender_id(n) == n

LISTEN_PORT == 39000

BROADCAST_HOST == "255.255.255.255"

\* The address a node's socket is bound to and sends from.
addr_of(n) == <<n, LISTEN_PORT>>

shard_of(n) == "alpha"

policy == [min_protocol_version |-> 1,
           max_protocol_version |-> 1,
           protocol_epoch |-> 1,
           max_event_hops |-> 2,
           reliable_event_types |-> {"battle", "market_trade", "chat",
               "mission_complete", "tech_upgrade", "jump", "defense_upgrade",
               "alliance_join", "alliance_create", "alliance_rename",
               "alliance_leave", "alliance_kick"},
           packets_per_sec |-> 120]

\* sha256 over the material, as an ideal hash: the material itself.
derive_shard_key(shard, epoch, secret) ==
    [shard |-> shard, epoch |-> epoch, secret |-> secret]

\* GameNode.__init__: the key of the node's shard at the policy's epoch.
shard_key(n) == derive_shard_key(shard_of(n), policy.protocol_epoch, "")

(* ------------------------ codec and authenticator ---------------------- *)

\* HMAC-SHA256 over the canonical bytes, as an ideal MAC: the key and the
\* signed content.
sign(key, obj) == [key |-> key, body |-> obj]

verify(key, obj, mac) == sign(key, obj) = mac

\* A dict as Python builds it: the sequence of its <<key, value>> items in
\* the order of insertion, the payload being a dict itself. The keys of the
\* envelopes and of their payloads, as sort_keys orders them:
SortedKeys ==
    <<"ack", "ack_bits", "epoch", "flags", "nick", "payload", "port", "sender", "seq",
      "shard", "ts", "type", "v">>

item_keys(items) == {items[i][1] : i \in DOMAIN items}

item_value(items, k) == items[CHOOSE i \in DOMAIN items : items[i][1] = k][2]

\* json.dumps without sort_keys: the items in the order of insertion.
RECURSIVE canonical_unsorted(_)
canonical_unsorted(items) ==
    [i \in DOMAIN items |->
        <<items[i][1],
          IF items[i][1] = "payload" THEN canonical_unsorted(items[i][2]) ELSE items[i][2]>>]

\* json.dumps(obj, separators=(",", ":"), sort_keys=True): the items sorted by
\* key at every level.
RECURSIVE canonical_bytes(_)
canonical_bytes(items) ==
    LET keys == SelectSeq(SortedKeys, LAMBDA k : k \in item_keys(items))
    IN [i \in DOMAIN keys |->
          <<keys[i],
            IF keys[i] = "payload" THEN canonical_bytes(item_value(items, "payload"))
            ELSE item_value(items, keys[i])>>]

\* ShardAuthenticator.sign and verify of a dict.
sign_dict(key, items) == sign(key, canonical_bytes(items))

verify_dict(key, items, mac) == sign_dict(key, items) = mac

flags_of(reliable, ack_only) ==
    (IF reliable THEN {"reliable"} ELSE {}) \cup (IF ack_only THEN {"ack_only"} ELSE {})

make_envelope(msg_type, sender, seq, ack, ack_bits, shard, payload, reliable, ack_only) ==
    [v |-> 1, type |-> msg_type, sender |-> sender, seq |-> seq, ack |-> ack,
     ack_bits |-> ack_bits, ts |-> now, shard |-> shard,
     flags |-> flags_of(reliable, ack_only), payload |-> payload]

\* make_envelope as ReliableMesh calls it, with the epoch keyword: the wire
\* envelope {v, type, sender, seq, ack, ack_bits, ts, shard, epoch, flags, payload}.
make_envelope_epoch(msg_type, sender, seq, ack, ack_bits, shard, epoch, payload, reliable, ack_only) ==
    LET e == make_envelope(msg_type, sender, seq, ack, ack_bits, shard, payload, reliable, ack_only)
    IN [v |-> e.v, type |-> e.type, sender |-> e.sender, seq |-> e.seq, ack |-> e.ack,
        ack_bits |-> e.ack_bits, ts |-> e.ts, shard |-> e.shard, epoch |-> epoch,
        flags |-> e.flags, payload |-> e.payload]

\* ReliableMesh._wrap: the signed envelope as the bytes on the wire.
_wrap(key, envelope) == [kind |-> "json", body |-> envelope, mac |-> sign(key, envelope)]

(* ------------------------------ Membership ----------------------------- *)

Peer(peer_id, host, port, shard, nick, last_seen) ==
    [peer_id |-> peer_id, host |-> host, port |-> port, shard |-> shard,
     nick |-> nick, last_seen |-> last_seen, latency_ms |-> 0, score |-> 100]

peer_ids(peers) == {peers[i].peer_id : i \in DOMAIN peers}

seen_first_only(peers, peer_id, host, port, shard, nick) ==
    IF peer_id \notin peer_ids(peers)
    THEN Append(peers, Peer(peer_id, host, port, shard, nick, now))
    ELSE peers

seen(peers, peer_id, host, port, shard, nick) ==
    IF peer_id \notin peer_ids(peers)
    THEN Append(peers, Peer(peer_id, host, port, shard, nick, now))
    ELSE [i \in DOMAIN peers |->
            IF peers[i].peer_id = peer_id
            THEN [peers[i] EXCEPT !.host = host, !.port = port, !.shard = shard,
                                  !.nick = nick, !.last_seen = now]
            ELSE peers[i]]

penalize_unfloored(peers, peer_id, amount) ==
    [i \in DOMAIN peers |->
        IF peers[i].peer_id = peer_id
        THEN [peers[i] EXCEPT !.score = @ - amount]
        ELSE peers[i]]

penalize(peers, peer_id, amount) ==
    [i \in DOMAIN peers |->
        IF peers[i].peer_id = peer_id
        THEN [peers[i] EXCEPT !.score = Max(0, @ - amount)]
        ELSE peers[i]]

healthy_peer(p, max_age) == (now - p.last_seen) <= max_age /\ p.score > 10

healthy(peers, max_age) == SelectSeq(peers, LAMBDA p : healthy_peer(p, max_age))

stale_peer(p, max_age) == (now - p.last_seen) > max_age

stale(peers, max_age) == SelectSeq(peers, LAMBDA p : stale_peer(p, max_age))

(* ---------------------------- NetsplitTracker -------------------------- *)

on_peer_seen_counting(ns) ==
    [last_peer_seen_ts |-> now, split_active |-> FALSE, merge_count |-> ns.merge_count + 1]

on_peer_seen(ns) ==
    [last_peer_seen_ts |-> now,
     split_active |-> FALSE,
     merge_count |-> IF ns.split_active THEN ns.merge_count + 1 ELSE ns.merge_count]

tick_any_count(ns, peer_count, timeout) ==
    IF (now - ns.last_peer_seen_ts) > timeout
    THEN [ns EXCEPT !.split_active = TRUE]
    ELSE ns

tick(ns, peer_count, timeout) ==
    IF peer_count = 0 /\ (now - ns.last_peer_seen_ts) > timeout
    THEN [ns EXCEPT !.split_active = TRUE]
    ELSE ns

(* ----------------------------- ReliableMesh ---------------------------- *)

PendingPacket_retried(addr, raw, sent_ts, retries) ==
    [addr |-> addr, raw |-> raw, sent_ts |-> sent_ts, retries |-> retries + 1]

PendingPacket(addr, raw, sent_ts, retries) ==
    [addr |-> addr, raw |-> raw, sent_ts |-> sent_ts, retries |-> retries]

\* The bucket of the source address after the timestamps older than a second
\* are dropped.
rate_bucket(m, addr) ==
    SelectSeq(Get(m.rate_counter, addr, <<>>), LAMBDA t : now - t < 10)

_rate_allowed(m, addr) == ~(Len(rate_bucket(m, addr)) > 120)

_rate_count(m, addr) ==
    [m EXCEPT !.rate_counter =
        Put(@, addr, IF _rate_allowed(m, addr)
                     THEN Append(rate_bucket(m, addr), now)
                     ELSE rate_bucket(m, addr))]

_ack_bits(m, sender) ==
    <<Get(m.highest_remote_seq, sender, 0), Get(m.recv_window, sender, {})>>

shift_window_none(bits, shift) == bits \cup {0}

shift_window(bits, shift) == ({b + shift : b \in bits} \cup {0}) \cap (0..63)

_track_remote_seq(m, sender, seq) ==
    LET highest == Get(m.highest_remote_seq, sender, 0)
        bits == Get(m.recv_window, sender, {})
    IN IF seq > highest
       THEN [m EXCEPT !.highest_remote_seq = Put(@, sender, seq),
                      !.recv_window = Put(@, sender, shift_window(bits, Min(64, seq - highest)))]
       ELSE [m EXCEPT !.highest_remote_seq = Put(@, sender, highest),
                      !.recv_window = Put(@, sender,
                          IF highest - seq < 64 THEN bits \cup {highest - seq} ELSE bits)]

acked_below_64(seq, ack, ack_bits) ==
    \/ seq = ack
    \/ seq < ack /\ ack - seq < 64 /\ (ack - seq - 1) \in ack_bits

epoch_unchecked(st, msg) == TRUE

acked(seq, ack, ack_bits) ==
    \/ seq = ack
    \/ /\ seq < ack
       /\ 1 <= ack - seq
       /\ ack - seq <= 64
       /\ (ack - seq - 1) \in ack_bits

_apply_ack(m, ack, ack_bits) ==
    [m EXCEPT !.pending =
        [seq \in {s \in DOMAIN m.pending : ~acked(s, ack, ack_bits)} |-> m.pending[seq]]]

\* transport.send: the datagram leaves the socket.
transport_send(st, raw, addr) == [st EXCEPT !.out = Append(@, [dst |-> addr, raw |-> raw])]

send(st, msg_type, payload, addr, reliable) ==
    LET seq == st.mesh.next_seq
        ab == _ack_bits(st.mesh, sender_id(st.id))
        raw == _wrap(shard_key(st.id),
                     make_envelope_epoch(msg_type, sender_id(st.id), seq, ab[1], ab[2],
                                         shard_of(st.id), policy.protocol_epoch,
                                         payload, reliable, FALSE))
        sent == transport_send([st EXCEPT !.mesh.next_seq = seq + 1, !.ret = seq], raw, addr)
    IN IF reliable
       THEN [sent EXCEPT !.mesh.pending = Put(@, seq, PendingPacket(addr, raw, now, 0))]
       ELSE sent

broadcast(st, msg_type, payload, port, reliable) ==
    send(st, msg_type, payload, <<BROADCAST_HOST, port>>, reliable)

(* -------------------------------- Store -------------------------------- *)

Sectors == {1, 2}

ensure_player(s, player_id, nick) ==
    IF player_id \in DOMAIN s.players
    THEN [s EXCEPT !.players[player_id].nick = nick,
                   !.players[player_id].updated_ts = now]
    ELSE [s EXCEPT !.players = Put(@, player_id,
            [nick |-> nick, credits |-> 1000, ore |-> 100, gas |-> 100, crystal |-> 100,
             hp |-> 100, sector |-> 1, updated_ts |-> now])]

\* update_player_resources without hp: credits = credits + ?.
update_player_resources(s, player_id, credits) ==
    IF player_id \in DOMAIN s.players
    THEN [s EXCEPT !.players[player_id].credits = @ + credits,
                   !.players[player_id].updated_ts = now]
    ELSE s

\* update_player_resources with hp: credits = credits + ?, hp = ?.
update_player_hp(s, player_id, credits, hp) ==
    IF player_id \in DOMAIN s.players
    THEN [s EXCEPT !.players[player_id].credits = @ + credits,
                   !.players[player_id].hp = hp,
                   !.players[player_id].updated_ts = now]
    ELSE s

set_player_sector(s, player_id, sector) ==
    IF player_id \in DOMAIN s.players
    THEN [s EXCEPT !.players[player_id].sector = sector,
                   !.players[player_id].updated_ts = now]
    ELSE s

record_battle(s, attacker, defender, winner, sector_id) ==
    [s EXCEPT !.battles = Append(@, [ts |-> now, attacker |-> attacker, defender |-> defender,
                                     winner |-> winner, sector_id |-> sector_id])]

claim_sector(s, sector_id, owner_player_id) ==
    IF sector_id \in DOMAIN s.sectors
    THEN [s EXCEPT !.sectors[sector_id] = owner_player_id]
    ELSE s

\* A row of the players table as SELECT * returns it.
player_row(s, pid) ==
    LET p == s.players[pid]
    IN [player_id |-> pid, nick |-> p.nick, credits |-> p.credits, ore |-> p.ore,
        gas |-> p.gas, crystal |-> p.crystal, hp |-> p.hp, sector |-> p.sector,
        updated_ts |-> p.updated_ts]

\* ORDER BY updated_ts DESC. SQL leaves the order of the rows of one
\* updated_ts open; here it is one fixed order of the ids, the same at every
\* node, so that two lists differ only where the timestamps make them differ.
RECURSIVE rows_by_updated_ts(_, _)
rows_by_updated_ts(s, pids) ==
    IF pids = {} THEN <<>>
    ELSE LET first == CHOOSE p \in pids : \A q \in pids :
                        s.players[p].updated_ts >= s.players[q].updated_ts
         IN <<player_row(s, first)>> \o rows_by_updated_ts(s, pids \ {first})

list_players(s) == rows_by_updated_ts(s, DOMAIN s.players)

\* ORDER BY battle_id DESC LIMIT limit.
recent_battles(s, limit) ==
    [i \in 1..Min(limit, Len(s.battles)) |->
        LET id == Len(s.battles) + 1 - i
        IN [battle_id |-> id, ts |-> s.battles[id].ts, attacker |-> s.battles[id].attacker,
            defender |-> s.battles[id].defender, winner |-> s.battles[id].winner,
            sector_id |-> s.battles[id].sector_id]]

\* snapshot_hash: SHA-256 over the JSON of the player rows and of the last 50
\* battles, as an ideal hash: the hashed content. The empty string, which is
\* no digest, is the empty sequence.
snapshot_hash(s) ==
    <<"sha256", [players |-> list_players(s), battles |-> recent_battles(s, 50)]>>

logged_ids(s) == {s.event_log[i].event_id : i \in DOMAIN s.event_log}

\* The row of the event_log that holds the identifier.
event_row(s, eid) == CHOOSE i \in DOMAIN s.event_log : s.event_log[i].event_id = eid

\* record_event: INSERT OR IGNORE under the UNIQUE event_id.
record_event_store(s, sender, event_type, payload, eid) ==
    IF eid \in logged_ids(s)
    THEN s
    ELSE [s EXCEPT !.event_log = Append(@, [sender |-> sender, event_type |-> event_type,
                                            payload |-> payload, event_id |-> eid])]

\* record_event's result: the new row's id; for an identifier already logged
\* the insert is ignored and the result is the connection's last inserted row
\* id or, that being 0, the id SELECTed for the identifier: not 0 either way.
\* The model returns the row that holds the identifier.
record_event_rowid(s, eid) ==
    IF eid \in logged_ids(s) THEN event_row(s, eid) ELSE Len(s.event_log) + 1

(* ------------------------------- GameNode ------------------------------ *)

nick_of(n) == n

\* eventlog.event_id: sha256 over sender, counter, clock and payload, as an
\* ideal hash.
event_id(sender, local_counter, payload) ==
    [sender |-> sender, counter |-> local_counter, ts |-> now, base |-> payload]

compact_event(event_type, payload, sender, eid) ==
    [event_id |-> eid, event_type |-> event_type, payload |-> payload, sender |-> sender]

with_hops(ev, hops) ==
    [event_id |-> ev.event_id, event_type |-> ev.event_type, payload |-> ev.payload,
     sender |-> ev.sender, hops |-> hops]

\* The peers _fanout_events may pick: healthy within 240 s and not excluded.
fanout_peers(st, exclude_peer_ids) ==
    SelectSeq(healthy(st.membership, 2400), LAMBDA p : p.peer_id \notin exclude_peer_ids)

\* A fan-out to every eligible peer.
fanout_all(n) == n

fanout_size(n) == Min(n, Max(3, isqrt(n) + 1))

\* random.sample(peers, fanout): the first fanout peers in the order ord, a
\* sequence that lists every known peer id once.
sample(peers, fanout, ord) ==
    LET inord == SelectSeq(ord, LAMBDA id : id \in peer_ids(peers))
        pick(id) == peers[CHOOSE i \in DOMAIN peers : peers[i].peer_id = id]
    IN [k \in 1..fanout |-> pick(inord[k])]

RECURSIVE send_each(_, _, _, _)
send_each(st, targets, payload, reliable) ==
    IF targets = <<>> THEN st
    ELSE send_each(send(st, "EVENT_BATCH", payload,
                        <<Head(targets).host, Head(targets).port>>, reliable),
                   Tail(targets), payload, reliable)

_fanout_events(st, events, exclude_peer_ids, reliable, ord) ==
    LET peers == fanout_peers(st, exclude_peer_ids)
    IN IF peers = <<>>
       THEN broadcast(st, "EVENT_BATCH", [events |-> events], LISTEN_PORT, reliable)
       ELSE send_each(st, sample(peers, fanout_size(Len(peers)), ord),
                      [events |-> events], reliable)

\* Every event sent reliably, as _fanout_events does by default.
is_reliable_always(event_type) == TRUE

is_reliable_type(event_type) == event_type \in policy.reliable_event_types

_emit_event(st, event_type, payload, ord) ==
    LET counter == st.local_event_counter + 1
        eid == event_id(sender_id(st.id), counter, payload)
        logged == [st EXCEPT !.local_event_counter = counter,
                             !.store = record_event_store(@, sender_id(st.id), event_type, payload, eid)]
        ce == with_hops(compact_event(event_type, payload, sender_id(st.id), eid), 0)
    IN _fanout_events(logged, <<ce>>, {}, is_reliable_type(event_type), ord)

\* economy.production_for_sector for the default doctrine: the credits a
\* sector of the given richness yields per resource tick.
production_for_sector(richness) == [credits |-> 20 + richness * 2]

\* The branch of _apply_remote_event for the event's type.
apply_effect(s, et, payload) ==
    LET pid == Get(payload, "player_id", "")
        nick == Get(payload, "nick", pid)
    IN CASE et \in {"resource_tick", "mine_burst"} /\ pid # "" ->
                update_player_resources(ensure_player(s, pid, nick), pid,
                                        Get(payload, "credits", 0))
         [] et = "battle" ->
                LET atk == Get(payload, "attacker", "")
                    dfn == Get(payload, "defender", "")
                    winner == Get(payload, "winner", "")
                    sector_id == Get(payload, "sector_id", 1)
                    s1 == IF atk # ""
                          THEN update_player_hp(ensure_player(s, atk, atk), atk, 0,
                                                Get(payload, "attacker_hp", 100))
                          ELSE s
                    s2 == IF dfn # ""
                          THEN update_player_hp(ensure_player(s1, dfn, dfn), dfn, 0,
                                                Get(payload, "defender_hp", 100))
                          ELSE s1
                    s3 == record_battle(s2, atk, dfn, winner, sector_id)
                IN IF winner = atk THEN claim_sector(s3, sector_id, winner) ELSE s3
         [] et = "jump" /\ pid # "" ->
                set_player_sector(ensure_player(s, pid, nick), pid, Get(payload, "to", 1))
         [] OTHER -> s

forwards_at_limit(ev) == Get(ev, "hops", 0) <= policy.max_event_hops

forwards(ev) == Get(ev, "hops", 0) < policy.max_event_hops

_apply_remote_event(st, ev, ord) ==
    LET et == ev.event_type
        payload == ev.payload
        sender == ev.sender
        eid == ev.event_id
        row_id == record_event_rowid(st.store, eid)
        logged == [st EXCEPT !.store = record_event_store(@, sender, et, payload, eid)]
        applied == [logged EXCEPT !.store = apply_effect(@, et, payload),
                                  !.applied = Append(@, eid)]
    IN IF row_id = 0 THEN logged
       ELSE IF forwards(ev)
       THEN _fanout_events(applied, <<with_hops(ev, Get(ev, "hops", 0) + 1)>>, {sender},
                           is_reliable_type(et), ord)
       ELSE applied

RECURSIVE apply_events(_, _, _)
apply_events(st, events, ord) ==
    IF events = <<>> THEN st
    ELSE apply_events(_apply_remote_event(st, Head(events), ord), Tail(events), ord)

RECURSIVE see_peers(_, _, _)
see_peers(peers, self, listed) ==
    IF listed = <<>> THEN peers
    ELSE LET p == Head(listed)
         IN see_peers(IF p.id # "" /\ p.id # self /\ p.host # "" /\ p.port # 0
                      THEN seen(peers, p.id, p.host, p.port, shard_of(self), p.nick)
                      ELSE peers,
                      self, Tail(listed))

peer_dump(peers) ==
    [i \in DOMAIN peers |-> [id |-> peers[i].peer_id, host |-> peers[i].host,
                            port |-> peers[i].port, nick |-> peers[i].nick]]

hash_always_differs(remote_hash, local_hash) == TRUE

\* SNAPSHOT_HASH: remote_hash != local_hash.
hash_differs(remote_hash, local_hash) == remote_hash # local_hash

merge_none(s, listed) == s

\* The SNAPSHOT_RES loop: ensure_player for every listed player with an id.
RECURSIVE merge_players(_, _)
merge_players(s, listed) ==
    IF listed = <<>> THEN s
    ELSE LET pid == Get(Head(listed), "player_id", "")
             nick == Get(Head(listed), "nick", pid)
         IN merge_players(IF pid # "" THEN ensure_player(s, pid, nick) ELSE s, Tail(listed))

version_ok(v) == ~(v < policy.min_protocol_version \/ v > policy.max_protocol_version)

on_net_message(st, msg, addr, ord) ==
    LET mtype == msg.type
        payload == msg.payload
        sender == msg.sender
    IN IF ~version_ok(msg.v) THEN [st EXCEPT !.app = "version"]
       ELSE IF Get(msg, "epoch", -1) # policy.protocol_epoch THEN [st EXCEPT !.app = "epoch"]
       ELSE IF sender = sender_id(st.id) THEN [st EXCEPT !.app = "self"]
       ELSE CASE mtype = "HELLO" ->
                    LET port == Get(payload, "port", addr[2])
                        nick == Get(payload, "nick", sender)
                        met == [st EXCEPT
                                  !.app = "handled",
                                  !.membership = seen(@, sender, addr[1], port, shard_of(st.id), nick),
                                  !.netsplit = on_peer_seen(@),
                                  !.store = ensure_player(@, sender, nick)]
                    IN send(met, "PEER_LIST", [peers |-> peer_dump(healthy(met.membership, 300))],
                            <<addr[1], port>>, FALSE)
              [] mtype = "PEER_LIST" ->
                    [st EXCEPT !.app = "handled",
                               !.membership = see_peers(@, sender_id(st.id), Get(payload, "peers", <<>>))]
              [] mtype = "PING" ->
                    send([st EXCEPT !.app = "handled"], "PONG", [ts |-> Get(payload, "ts", 0)], addr, FALSE)
              [] mtype = "PONG" ->
                    [st EXCEPT !.app = "handled", !.netsplit = on_peer_seen(@)]
              [] mtype = "EVENT_BATCH" ->
                    apply_events([st EXCEPT !.app = "handled"], Get(payload, "events", <<>>), ord)
              [] mtype = "SNAPSHOT_HASH" ->
                    IF hash_differs(Get(payload, "hash", <<>>), snapshot_hash(st.store))
                    THEN send([st EXCEPT !.app = "handled"], "SNAPSHOT_REQ", EmptyDict, addr, FALSE)
                    ELSE [st EXCEPT !.app = "handled"]
              [] mtype = "SNAPSHOT_REQ" ->
                    send([st EXCEPT !.app = "handled"], "SNAPSHOT_RES",
                         [players |-> list_players(st.store), hash |-> snapshot_hash(st.store)],
                         addr, FALSE)
              [] mtype = "SNAPSHOT_RES" ->
                    [st EXCEPT !.app = "handled",
                               !.store = merge_players(@, Get(payload, "players", <<>>))]
              [] OTHER -> [st EXCEPT !.app = "ignored"]

(* --------------------------- the receive loop -------------------------- *)

\* An ACK-only envelope that takes no sequence number of its own.
send_ack_same_seq(st, sender, seq, addr) ==
    transport_send(st,
                   _wrap(shard_key(st.id),
                         make_envelope_epoch("ACK", sender_id(st.id), st.mesh.next_seq,
                                             Get(st.mesh.highest_remote_seq, sender, 0),
                                             Get(st.mesh.recv_window, sender, {}),
                                             shard_of(st.id), policy.protocol_epoch,
                                             [for |-> seq], FALSE, TRUE)),
                   addr)

\* The ACK-only envelope recv_loop sends for a reliable envelope.
send_ack(st, sender, seq, addr) ==
    LET raw == _wrap(shard_key(st.id),
                     make_envelope_epoch("ACK", sender_id(st.id), st.mesh.next_seq,
                                         Get(st.mesh.highest_remote_seq, sender, 0),
                                         Get(st.mesh.recv_window, sender, {}),
                                         shard_of(st.id), policy.protocol_epoch,
                                         [for |-> seq], FALSE, TRUE))
    IN transport_send([st EXCEPT !.mesh.next_seq = @ + 1], raw, addr)

\* A datagram is invalid bytes (kind "garbage"), a JSON value that is not an
\* object (kind "json_value"), or a JSON object (kind "json"): its members
\* are those of body, but for the members that odd names a JSON value of
\* another type stands there: a string of digits ("digits", the text 7), any
\* other string ("text"), a float ("float", 1.5), null or an empty array.
odd_of(data) == IF "odd" \in DOMAIN data THEN data.odd ELSE EmptyDict

is_odd(data, k, kinds) == k \in DOMAIN odd_of(data) /\ odd_of(data)[k] \in kinds

\* int(v) raises ValueError for a string that is no number and TypeError for
\* null and for a list; it converts a string of digits and truncates a float.
int_raises(data, k) == is_odd(data, k, {"text", "null", "array"})

int_of(kind) == IF kind = "digits" THEN 7 ELSE 1

\* An integer as the set of its set bits.
bits_of(kind) == IF kind = "digits" THEN {0, 1, 2} ELSE {0}

\* hmac.compare_digest raises TypeError unless the mac is a string.
mac_raises(data) == is_odd(data, "mac", {"float", "null", "array"})

\* set(flags) raises TypeError for a number and for null.
flags_raise(data) == is_odd(data, "flags", {"float", "null"})

\* on_net_message starts with dict(payload) and int(v): dict raises for a
\* string that is not empty, a number and null; an empty array gives {}.
callback_raises(data) ==
    \/ is_odd(data, "payload", {"digits", "text", "float", "null"})
    \/ int_raises(data, "v")

\* The object that was signed: the members without the mac.
signed_object(data) ==
    IF DOMAIN odd_of(data) = {} THEN data.body
    ELSE [body |-> data.body, odd |-> Del(odd_of(data), "mac")]

\* The envelope as recv_loop and on_net_message read it, after their
\* conversions with int(), set() and dict().
converted(data) ==
    LET odd == odd_of(data)
    IN [k \in DOMAIN data.body |->
          IF k \notin DOMAIN odd THEN data.body[k]
          ELSE CASE k \in {"seq", "ack", "epoch", "v"} -> int_of(odd[k])
                 [] k = "ack_bits" -> bits_of(odd[k])
                 [] k = "flags" -> {}
                 [] k = "payload" -> EmptyDict
                 [] OTHER -> odd[k]]

mac_ok(st, data) ==
    /\ "mac" \notin DOMAIN odd_of(data)
    /\ verify(shard_key(st.id), signed_object(data), data.mac)

shard_ok(st, msg) == msg.shard = shard_of(st.id)

epoch_ok(st, msg) == Get(msg, "epoch", -1) = policy.protocol_epoch

wants_ack_always(msg) == TRUE

wants_ack(msg) == "reliable" \in msg.flags

\* recv_loop's body up to the callback: the datagram data from the source
\* address addr is dropped, or raises, or is an envelope whose
\* acknowledgment is applied, whose sequence number is tracked and which is
\* answered with an ACK if it is reliable.
recv_envelope(st, data, addr) ==
    LET counted == [st EXCEPT !.mesh = _rate_count(@, addr)]
    IN IF ~_rate_allowed(st.mesh, addr) THEN [counted EXCEPT !.verdict = "rate"]
       ELSE IF data.kind = "json_value" THEN [counted EXCEPT !.verdict = "raised"]
       ELSE IF data.kind # "json" THEN [counted EXCEPT !.verdict = "decode"]
       ELSE IF mac_raises(data) THEN [counted EXCEPT !.verdict = "raised"]
       ELSE IF ~mac_ok(st, data) THEN [counted EXCEPT !.verdict = "mac"]
       ELSE IF "shard" \in DOMAIN odd_of(data) \/ ~shard_ok(st, data.body)
       THEN [counted EXCEPT !.verdict = "shard"]
       ELSE IF int_raises(data, "epoch") THEN [counted EXCEPT !.verdict = "raised"]
       ELSE IF ~epoch_ok(st, converted(data)) THEN [counted EXCEPT !.verdict = "epoch"]
       ELSE IF \E k \in {"seq", "ack", "ack_bits"} : int_raises(data, k)
       THEN [counted EXCEPT !.verdict = "raised"]
       ELSE LET msg == converted(data)
                tracked == [counted EXCEPT
                              !.verdict = "accepted",
                              !.acked = DOMAIN st.mesh.pending
                                            \ DOMAIN _apply_ack(st.mesh, msg.ack, msg.ack_bits).pending,
                              !.mesh = _track_remote_seq(_apply_ack(@, msg.ack, msg.ack_bits),
                                                         msg.sender, msg.seq)]
            IN IF flags_raise(data) THEN [tracked EXCEPT !.verdict = "raised"]
               ELSE IF wants_ack(msg) THEN send_ack(tracked, msg.sender, msg.seq, addr)
               ELSE tracked

\* recv_loop's call of on_message for the envelope it accepted.
on_message(st, data, addr, ord) ==
    IF callback_raises(data) THEN [st EXCEPT !.verdict = "raised"]
    ELSE on_net_message([st EXCEPT !.delivered = Append(@, converted(data))],
                        converted(data), addr, ord)

\* One pass of recv_loop's body.
recv_datagram(st, data, addr, ord) ==
    LET head == recv_envelope(st, data, addr)
    IN IF head.verdict = "accepted" THEN on_message(head, data, addr, ord) ELSE head

(* ------------------------- the retransmit loop ------------------------- *)

due_never(packet) == FALSE

due(packet) == ~(now - packet.sent_ts < 5)

exhausted_late(packet) == packet.retries > 6

exhausted(packet) == packet.retries >= 6

\* A packet resent to the broadcast address whatever its destination.
resend_to_broadcast(st, packet) ==
    transport_send(st, packet.raw, <<BROADCAST_HOST, packet.addr[2]>>)

\* transport.send(packet.raw, packet.addr): the stored bytes, as they are.
resend(st, packet) == transport_send(st, packet.raw, packet.addr)

\* One pass of retransmit_loop over the pending packets, in the dict's order
\* (the order of the sequence numbers, in which the packets were inserted).
RECURSIVE retransmit_from(_, _)
retransmit_from(st, seqs) ==
    IF seqs = {} THEN st
    ELSE LET seq == CHOOSE s \in seqs : \A t \in seqs : s <= t
             packet == st.mesh.pending[seq]
             rest == seqs \ {seq}
         IN IF ~due(packet) THEN retransmit_from(st, rest)
            ELSE IF exhausted(packet)
            THEN retransmit_from([st EXCEPT !.mesh.pending = Del(@, seq)], rest)
            ELSE retransmit_from(
                    resend([st EXCEPT !.mesh.pending[seq].retries = @ + 1,
                                      !.mesh.pending[seq].sent_ts = now],
                           packet),
                    rest)

retransmit_pass(st) == retransmit_from(st, DOMAIN st.mesh.pending)

(* ------------------------------ the network ---------------------------- *)

\* The datagrams a transmission puts in flight: one to the node at the
\* destination host, one to every node for the broadcast address.
datagrams_of(n, out) ==
    {[to |-> m, src |-> addr_of(n), raw |-> out[i].raw] :
        <<i, m>> \in {<<j, k>> \in (DOMAIN out) \X Nodes :
                        /\ out[j].dst[2] = LISTEN_PORT
                        /\ out[j].dst[1] \in {k, BROADCAST_HOST}}}

\* The network after a transmission: it takes what fits and loses the rest.
transmit_choices(flying, new) ==
    LET fresh == new \ flying
        room == Max(0, MaxInFlight - Cardinality(flying))
    IN IF Cardinality(fresh) <= room THEN {flying \cup fresh}
       ELSE {flying \cup kept : kept \in {k \in SUBSET fresh : Cardinality(k) = room}}

(* ----------------------------- GossipBuffer ---------------------------- *)

\* GossipBuffer.__init__: an empty deque(maxlen=max_items) and an empty set.
GossipBuffer(max_items) == [items |-> <<>>, seen_ids |-> {}, max_items |-> max_items]

\* deque.append with a maxlen: the oldest items leave at the left.
deque_append(items, maxlen, x) ==
    LET all == Append(items, x)
    IN IF Len(all) > maxlen THEN SubSeq(all, Len(all) - maxlen + 1, Len(all)) ELSE all

item_ids(items) == {items[i].event_id : i \in DOMAIN items}

\* An add that never prunes the set of seen identifiers.
add_unpruned(buf, eid, payload) ==
    IF eid \in buf.seen_ids THEN [buffer |-> buf, ret |-> FALSE]
    ELSE [buffer |-> [buf EXCEPT
                        !.seen_ids = @ \cup {eid},
                        !.items = deque_append(@, buf.max_items,
                                               [event_id |-> eid, ts |-> now,
                                                payload |-> payload])],
          ret |-> TRUE]

\* GossipBuffer.add: the buffer after the call, and what the call returns.
add(buf, eid, payload) ==
    IF eid \in buf.seen_ids THEN [buffer |-> buf, ret |-> FALSE]
    ELSE LET items == deque_append(buf.items, buf.max_items,
                                   [event_id |-> eid, ts |-> now, payload |-> payload])
             seen_ids == buf.seen_ids \cup {eid}
         IN [buffer |-> [buf EXCEPT
                           !.items = items,
                           !.seen_ids = IF Cardinality(seen_ids) > PruneThreshold
                                        THEN item_ids(items) ELSE seen_ids],
             ret |-> TRUE]

(* -------------------------------- steps -------------------------------- *)

NodeState(n) ==
    [id |-> n, mesh |-> mesh[n], membership |-> membership[n], netsplit |-> netsplit[n],
     store |-> store[n], local_event_counter |-> local_event_counter[n],
     out |-> <<>>, delivered |-> <<>>, applied |-> <<>>, acked |-> {},
     verdict |-> "none", app |-> "none", ret |-> 0]

NoData == [kind |-> "none"]

NoAddr == <<"", 0>>

\* The transmissions per sequence number, those of out added.
RECURSIVE counted(_, _)
counted(count, out) ==
    IF out = <<>> THEN count
    ELSE counted(Put(count, Head(out).raw.body.seq, Get(count, Head(out).raw.body.seq, 0) + 1),
                 Tail(out))

\* The node's fields after a handler, what it transmitted put in flight; an
\* exception that leaves recv_loop ends its task.
Effects(n, st, flying, op, data, addr) ==
    /\ mesh' = [mesh EXCEPT ![n] = st.mesh]
    /\ membership' = [membership EXCEPT ![n] = st.membership]
    /\ netsplit' = [netsplit EXCEPT ![n] = st.netsplit]
    /\ store' = [store EXCEPT ![n] = st.store]
    /\ local_event_counter' = [local_event_counter EXCEPT ![n] = st.local_event_counter]
    /\ net' \in transmit_choices(flying, datagrams_of(n, st.out))
    /\ transmitted' = [transmitted EXCEPT ![n] = counted(@, st.out)]
    /\ received' = [received EXCEPT ![n] = @ \cup
                        {<<st.delivered[i].sender, st.delivered[i].seq>> : i \in DOMAIN st.delivered}]
    /\ last' = [op |-> op, node |-> n, data |-> data, src |-> addr, verdict |-> st.verdict,
                app |-> st.app, out |-> st.out, delivered |-> st.delivered,
                applied |-> st.applied, acked |-> st.acked, peers |-> membership[n]]
    /\ task' = IF st.verdict = "raised" THEN [task EXCEPT ![n].recv_task = "raised"] ELSE task
    /\ UNCHANGED gossip

\* A handler that runs whole in the event loop.
Commit(n, st, flying, op, data, addr) ==
    /\ Effects(n, st, flying, op, data, addr)
    /\ UNCHANGED <<runtime, thread>>

\* GameNode._announce with no seed peers: HELLO to the broadcast address.
Announce(n) ==
    /\ task[n].tick_task = "running"
    /\ Commit(n, broadcast(NodeState(n), "HELLO",
                           [nick |-> nick_of(n), port |-> LISTEN_PORT], LISTEN_PORT, FALSE),
              net, "announce", NoData, NoAddr)
    /\ UNCHANGED <<now, retransmit_wake>>

\* _tick_loop's snapshot beacon, every 11 s: SNAPSHOT_HASH to the broadcast
\* address (the second of the wall clock it fires in is left open).
SnapshotBeacon(n) ==
    /\ task[n].tick_task = "running"
    /\ Commit(n, broadcast(NodeState(n), "SNAPSHOT_HASH", [hash |-> snapshot_hash(store[n])],
                           LISTEN_PORT, FALSE),
              net, "beacon", NoData, NoAddr)
    /\ UNCHANGED <<now, retransmit_wake>>

\* GameNode.public_state, as the dashboard and the API ask for it: the
\* netsplit tracker is ticked with the number of healthy peers.
PublicState(n) ==
    /\ Commit(n, [NodeState(n) EXCEPT
                    !.netsplit = tick(@, Len(healthy(membership[n], 300)), 200)],
              net, "public_state", NoData, NoAddr)
    /\ UNCHANGED <<now, retransmit_wake>>

\* _tick_loop's resource tick: resource_tick_for_player credits the production
\* of the player's sector to the player, and the event is emitted.
ResourceTick(n, richness, ord) ==
    /\ task[n].tick_task = "running"
    /\ LET prod == production_for_sector(richness)
           paid == [NodeState(n) EXCEPT
                      !.store = update_player_resources(@, sender_id(n), prod.credits)]
       IN Commit(n, _emit_event(paid, "resource_tick",
                                [player_id |-> sender_id(n), credits |-> prod.credits,
                                 nick |-> nick_of(n)], ord),
                 net, "tick", NoData, NoAddr)
    /\ UNCHANGED <<now, retransmit_wake>>

\* do_action("jump") to the sector target: the player moves and the event is
\* emitted (the gas and the action points the jump costs are not modelled).
Jump(n, target, ord) ==
    /\ task[n].tick_task = "running"
    /\ target # store[n].players[sender_id(n)].sector
    /\ LET cur == store[n].players[sender_id(n)].sector
           moved == [NodeState(n) EXCEPT !.store = set_player_sector(@, sender_id(n), target)]
       IN Commit(n, _emit_event(moved, "jump",
                                [player_id |-> sender_id(n), nick |-> nick_of(n),
                                 from |-> cur, to |-> target], ord),
                 net, "jump", NoData, NoAddr)
    /\ UNCHANGED <<now, retransmit_wake>>

\* The application calls mesh.send, as _scan does with a PING and
\* invite_alliance with a reliable ALLIANCE_INVITE.
Send(n, msg_type, payload, addr, reliable) ==
    /\ LET st == send(NodeState(n), msg_type, payload, addr, reliable)
       IN Commit(n, st, net, "send",
                 [kind |-> "call", msg_type |-> msg_type, payload |-> payload,
                  reliable |-> reliable, ret |-> st.ret], addr)
    /\ UNCHANGED <<now, retransmit_wake>>

\* The application calls mesh.broadcast.
Broadcast(n, msg_type, payload, port, reliable) ==
    /\ LET st == broadcast(NodeState(n), msg_type, payload, port, reliable)
       IN Commit(n, st, net, "broadcast",
                 [kind |-> "call", msg_type |-> msg_type, payload |-> payload,
                  reliable |-> reliable, ret |-> st.ret], <<"", port>>)
    /\ UNCHANGED <<now, retransmit_wake>>

\* recv_loop takes a datagram of another node, or its own, off the socket.
Deliver(n, d, ord) ==
    /\ task[n].recv_task = "running"
    /\ d \in net
    /\ d.to = n
    /\ Commit(n, recv_datagram(NodeState(n), d.raw, d.src, ord),
              net \ {d}, "recv", d.raw, d.src)
    /\ UNCHANGED <<now, retransmit_wake>>

ExternalAddr == <<"X", LISTEN_PORT>>

\* recv_loop takes a datagram that a host outside the model sent from addr.
Arrive(n, data, addr, ord) ==
    /\ task[n].recv_task = "running"
    /\ Commit(n, recv_datagram(NodeState(n), data, addr, ord), net, "recv", data, addr)
    /\ UNCHANGED <<now, retransmit_wake>>

\* The foreign host sends a datagram, MaxArrivals of them at most.
External(n, data, ord) ==
    /\ Len(Get(mesh[n].rate_counter, ExternalAddr, <<>>)) < MaxArrivals
    /\ Arrive(n, data, ExternalAddr, ord)

\* The network loses a datagram.
Lose(d) ==
    /\ d \in net
    /\ net' = net \ {d}
    /\ last' = [op |-> "lose", node |-> d.to, data |-> d.raw, src |-> d.src, verdict |-> "none",
                app |-> "none", out |-> <<>>, delivered |-> <<>>, applied |-> <<>>, acked |-> {}, peers |-> <<>>]
    /\ UNCHANGED <<runtime, task, thread, gossip>>
    /\ UNCHANGED <<mesh, membership, netsplit, store, local_event_counter, now, retransmit_wake,
                   received, transmitted>>

\* retransmit_loop wakes from its sleep of 0.2 s and makes one pass.
Retransmit(n) ==
    /\ task[n].retransmit_task = "running"
    /\ now >= retransmit_wake[n]
    /\ Commit(n, retransmit_pass(NodeState(n)), net, "retransmit", NoData, NoAddr)
    /\ retransmit_wake' = [retransmit_wake EXCEPT ![n] = now + 2]
    /\ UNCHANGED now

\* Time passes, up to the limit.
AdvanceWithin(dt, limit) ==
    /\ now + dt <= limit
    /\ now' = now + dt
    /\ last' = [op |-> "advance", node |-> "", data |-> NoData, src |-> NoAddr, verdict |-> "none",
                app |-> "none", out |-> <<>>, delivered |-> <<>>, applied |-> <<>>, acked |-> {}, peers |-> <<>>]
    /\ UNCHANGED <<runtime, task, thread, gossip>>
    /\ UNCHANGED <<mesh, membership, netsplit, store, local_event_counter, net, retransmit_wake,
                   received, transmitted>>

Advance(dt) == AdvanceWithin(dt, MaxNow)

\* A step that is not a handler of the mesh.
Note(op, n) ==
    last' = [op |-> op, node |-> n, data |-> NoData, src |-> NoAddr, verdict |-> "none",
             app |-> "none", out |-> <<>>, delivered |-> <<>>, applied |-> <<>>, acked |-> {},
             peers |-> <<>>]

\* recv_loop takes a datagram off the socket and runs up to the callback; the
\* thread of the event loop then stands before self.on_message(msg, addr).
RecvBegin(n, d, ord) ==
    /\ task[n].recv_task = "running"
    /\ thread[n].handling.kind = "none"
    /\ d \in net
    /\ d.to = n
    /\ LET head == recv_envelope(NodeState(n), d.raw, d.src)
       IN /\ Effects(n, head, net \ {d}, "recv_begin", d.raw, d.src)
          /\ thread' = [thread EXCEPT ![n].handling =
                            IF head.verdict = "accepted"
                            THEN [kind |-> "callback", data |-> d.raw, addr |-> d.src, ord |-> ord]
                            ELSE [kind |-> "none"]]
    /\ UNCHANGED <<now, retransmit_wake, runtime>>

\* The callback runs and recv_loop returns to its await.
RecvEnd(n) ==
    /\ thread[n].handling.kind = "callback"
    /\ LET h == thread[n].handling
       IN Effects(n, on_message(NodeState(n), h.data, h.addr, h.ord), net, "recv_end",
                  h.data, h.addr)
    /\ thread' = [thread EXCEPT ![n].handling = [kind |-> "none"]]
    /\ UNCHANGED <<now, retransmit_wake, runtime>>

\* The dashboard's thread enters public_state: it reads the player's row and
\* the healthy peers. No lock is taken (state_lock is never acquired).
UiRead(n) ==
    /\ thread[n].ui.pc = "idle"
    /\ thread' = [thread EXCEPT ![n].ui = [pc |-> "tick", healthy |-> healthy(membership[n], 300)]]
    /\ Note("ui_read", n)
    /\ UNCHANGED <<mesh, membership, netsplit, store, local_event_counter, net, now,
                   retransmit_wake, received, transmitted, runtime, task, gossip>>

\* The dashboard's thread goes on in public_state: it ticks the netsplit
\* tracker with the number of peers it read and reads the store and
\* len(mesh.pending) for the metrics.
UiTick(n) ==
    /\ thread[n].ui.pc = "tick"
    /\ Effects(n, [NodeState(n) EXCEPT !.netsplit = tick(@, Len(thread[n].ui.healthy), 200)],
               net, "ui_tick",
               [kind |-> "metrics", peer_count |-> Len(thread[n].ui.healthy),
                pending_packets |-> Cardinality(DOMAIN mesh[n].pending)], NoAddr)
    /\ thread' = [thread EXCEPT ![n].ui = [pc |-> "idle", healthy |-> <<>>]]
    /\ UNCHANGED <<now, retransmit_wake, runtime>>

\* The UI thread on its way out, Ctrl-C or the quit command set the flag.
Shutdown(n) ==
    /\ ~runtime[n].shutdown
    /\ runtime' = [runtime EXCEPT ![n].shutdown = TRUE]
    /\ Note("shutdown", n)
    /\ UNCHANGED <<mesh, membership, netsplit, store, local_event_counter, net, now,
                   retransmit_wake, received, transmitted, task, thread, gossip>>

cancel_ignored(status) == status

\* Task.cancel(): a task that has not ended is to be resumed with
\* CancelledError.
cancel(status) == IF status = "running" THEN "cancelling" ELSE status

\* run_async wakes from its sleep of 0.2 s, finds the flag set and cancels
\* the three tasks.
CancelTasks(n) ==
    /\ runtime[n].shutdown
    /\ \E t \in DOMAIN task[n] : task[n][t] = "running"
    /\ task' = [task EXCEPT ![n] = [t \in DOMAIN @ |-> cancel(@[t])]]
    /\ Note("cancel", n)
    /\ UNCHANGED <<mesh, membership, netsplit, store, local_event_counter, net, now,
                   retransmit_wake, received, transmitted, runtime, thread, gossip>>

\* A cancelled task is resumed at its await, where CancelledError ends it.
TaskEnds(n, t) ==
    /\ task[n][t] = "cancelling"
    /\ task' = [task EXCEPT ![n][t] = "done"]
    /\ Note("task_end", n)
    /\ UNCHANGED <<mesh, membership, netsplit, store, local_event_counter, net, now,
                   retransmit_wake, received, transmitted, runtime, thread, gossip>>

\* _tick_loop wakes from its sleep, finds the flag set and returns.
TickExit(n) ==
    /\ runtime[n].shutdown
    /\ task[n].tick_task = "running"
    /\ task' = [task EXCEPT ![n].tick_task = "done"]
    /\ Note("tick_exit", n)
    /\ UNCHANGED <<mesh, membership, netsplit, store, local_event_counter, net, now,
                   retransmit_wake, received, transmitted, runtime, thread, gossip>>

(* --------------------------- the initial state ------------------------- *)

InitMesh ==
    [next_seq |-> 1, highest_remote_seq |-> EmptyDict, recv_window |-> EmptyDict,
     pending |-> EmptyDict, rate_counter |-> EmptyDict]

InitStore(n) ==
    [event_log |-> <<>>,
     players |-> Put(EmptyDict, sender_id(n),
                     [nick |-> nick_of(n), credits |-> 1000, ore |-> 100, gas |-> 100,
                      crystal |-> 100, hp |-> 100, sector |-> 1, updated_ts |-> 0]),
     battles |-> <<>>,
     sectors |-> [x \in Sectors |-> ""]]

Init ==
    /\ now = 0
    /\ mesh = [n \in Nodes |-> InitMesh]
    /\ membership = [n \in Nodes |-> <<>>]
    /\ netsplit = [n \in Nodes |-> [last_peer_seen_ts |-> 0, split_active |-> FALSE,
                                    merge_count |-> 0]]
    /\ store = [n \in Nodes |-> InitStore(n)]
    /\ local_event_counter = [n \in Nodes |-> 0]
    /\ net = {}
    /\ retransmit_wake = [n \in Nodes |-> 2]
    /\ received = [n \in Nodes |-> {}]
    /\ transmitted = [n \in Nodes |-> EmptyDict]
    /\ runtime = [n \in Nodes |-> [shutdown |-> FALSE]]
    /\ task = [n \in Nodes |-> [recv_task |-> "running", retransmit_task |-> "running",
                                 tick_task |-> "running"]]
    /\ thread = [n \in Nodes |-> [handling |-> [kind |-> "none"],
                                   ui |-> [pc |-> "idle", healthy |-> <<>>]]]
    /\ gossip = [buffer |-> GossipBuffer(MaxItems), accepted |-> {}]
    /\ last = [op |-> "init", node |-> "", data |-> NoData, src |-> NoAddr, verdict |-> "none",
               app |-> "none", out |-> <<>>, delivered |-> <<>>, applied |-> <<>>, acked |-> {}, peers |-> <<>>]

(* ------------------------- the mesh of two nodes ----------------------- *)

\* The node whose player acts; the other node hears of it.
Origin == "A"

Other(n) == CHOOSE m \in Nodes : m # n

\* The richness of the sectors of the map.
Richness == {3}

KnownOrders(n) == Orders(peer_ids(membership[n]))

\* No node originates an envelope with a sequence number above k.
SeqCap(k) == \A n \in Nodes : mesh'[n].next_seq <= k + 1

\* No node originates more than k events.
EventCap(k) == \A n \in Nodes : local_event_counter'[n] <= k

Next ==
    \/ \E r \in Richness : \E ord \in KnownOrders(Origin) :
            ResourceTick(Origin, r, ord) /\ EventCap(MaxEvents) /\ SeqCap(MaxSeq)
    \/ \E target \in Sectors : \E ord \in KnownOrders(Origin) :
            Jump(Origin, target, ord) /\ EventCap(MaxEvents) /\ SeqCap(MaxSeq)
    \/ \E n \in Nodes : \E d \in net : \E ord \in KnownOrders(n) :
            Deliver(n, d, ord) /\ SeqCap(MaxSeq)
    \/ \E d \in net : Lose(d)

Spec == Init /\ [][Next]_vars

(* ---------------- one node sends reliably, the other acks -------------- *)

NextAck ==
    \/ \E target \in Sectors : \E ord \in KnownOrders(Origin) :
            Jump(Origin, target, ord) /\ EventCap(MaxAckEvents) /\ SeqCap(MaxAckSeq)
    \/ \E n \in Nodes : \E d \in net : \E ord \in KnownOrders(n) :
            Deliver(n, d, ord) /\ SeqCap(MaxAckSeq)
    \/ \E d \in net : Lose(d)

SpecAck == Init /\ [][NextAck]_vars

(* ------------- a node and the datagrams of hosts outside it ------------ *)

Foreign == "X"

\* An envelope of the foreign host, with sequence number 1.
foreign_envelope(msg_type, ack, ack_bits, shard, epoch, payload, reliable) ==
    make_envelope_epoch(msg_type, Foreign, 1, ack, ack_bits, shard, epoch, payload,
                        reliable, msg_type = "ACK")

\* A member of the shard at the policy's epoch acknowledges (ack, ack_bits).
foreign_ack(n, ack, ack_bits) ==
    _wrap(shard_key(n),
          foreign_envelope("ACK", ack, ack_bits, shard_of(n), policy.protocol_epoch,
                           [for |-> ack], FALSE))

\* A reliable PING that acknowledges the sequences 1..3, of the given shard
\* and epoch and signed with the given key.
foreign_ping(shard, epoch, key) ==
    _wrap(key, foreign_envelope("PING", 3, {0, 1}, shard, epoch, [ts |-> 0], TRUE))

\* The acknowledgments (ack, ack_bits) the foreign host sends.
AckInputs ==
    {<<0, {0}>>, <<1, {}>>, <<3, {0}>>, <<3, {1}>>, <<3, {0, 1}>>, <<4, {2}>>,
     <<65, {63}>>, <<66, {63}>>, <<66, {64}>>}

\* The datagrams of the foreign host that the node must drop: signed with the
\* key of another epoch, of another shard, of another epoch under the node's
\* key, altered after signing, and not an envelope at all.
DroppedInputs(n) ==
    LET good == foreign_ping(shard_of(n), policy.protocol_epoch, shard_key(n))
    IN {foreign_ping(shard_of(n), policy.protocol_epoch + 1,
                     derive_shard_key(shard_of(n), policy.protocol_epoch + 1, "")),
        foreign_ping(shard_of(n), policy.protocol_epoch,
                     derive_shard_key(shard_of(n), policy.protocol_epoch + 1, "")),
        foreign_ping("beta", policy.protocol_epoch, derive_shard_key("beta", policy.protocol_epoch, "")),
        foreign_ping("beta", policy.protocol_epoch, shard_key(n)),
        foreign_ping(shard_of(n), policy.protocol_epoch + 1, shard_key(n)),
        [good EXCEPT !.body.ack = 2],
        [kind |-> "garbage"]}

\* Authenticated envelopes of the node's shard and epoch, of the protocol
\* versions around the policy's range.
VersionInputs(n) ==
    LET good == foreign_envelope("PING", 3, {0, 1}, shard_of(n), policy.protocol_epoch,
                                 [ts |-> 0], TRUE)
    IN {_wrap(shard_key(n), [good EXCEPT !.v = v]) :
            v \in (policy.min_protocol_version - 1)..(policy.max_protocol_version + 1)}

ForeignInputs(n) ==
    {foreign_ack(n, a[1], a[2]) : a \in AckInputs} \cup DroppedInputs(n) \cup VersionInputs(n)

NextForeign ==
    \/ \E target \in Sectors : \E ord \in KnownOrders(Origin) :
            Jump(Origin, target, ord) /\ EventCap(MaxAckEvents) /\ SeqCap(MaxAckSeq)
    \/ \E data \in ForeignInputs(Origin) : \E ord \in KnownOrders(Origin) :
            External(Origin, data, ord) /\ SeqCap(MaxAckSeq)

SpecForeign == Init /\ [][NextForeign]_vars

(* ------------------------ a node that is shut down --------------------- *)

\* The node's player jumps, the node hears its own broadcast and retransmits
\* it, and at some moment the shutdown flag is set.
NextShutdown ==
    \/ \E target \in Sectors : \E ord \in KnownOrders(Origin) :
            Jump(Origin, target, ord) /\ EventCap(MaxEvents)
    \/ \E d \in net : \E ord \in KnownOrders(Origin) :
            Deliver(Origin, d, ord) /\ SeqCap(MaxSeq)
    \/ \E d \in net : Lose(d)
    \/ Retransmit(Origin)
    \/ AdvanceWithin(5, MaxShutdownNow)
    \/ Shutdown(Origin)
    \/ CancelTasks(Origin)
    \/ \E t \in DOMAIN task[Origin] : TaskEnds(Origin, t)
    \/ TickExit(Origin)

\* The event loop runs run_async again after each sleep of 0.2 s, and a
\* cancelled task at its await.
SpecShutdown ==
    /\ Init
    /\ [][NextShutdown]_vars
    /\ WF_vars(CancelTasks(Origin))
    /\ \A t \in {"recv_task", "retransmit_task", "tick_task"} : WF_vars(TaskEnds(Origin, t))

(* ------------------ the event loop and the dashboard's thread ---------- *)

\* The other node announces itself, the node's player jumps, the node's
\* recv_loop handles what arrives, and the dashboard's thread asks for the
\* public state whenever it likes.
NextThreads ==
    \/ /\ mesh[Other(Origin)].next_seq = 1
       /\ Announce(Other(Origin))
    \/ /\ thread[Origin].handling.kind = "none"
       /\ \E target \in Sectors : \E ord \in KnownOrders(Origin) :
            Jump(Origin, target, ord) /\ EventCap(MaxEvents) /\ SeqCap(MaxSeq)
    \/ \E d \in net : \E ord \in KnownOrders(Origin) :
            RecvBegin(Origin, d, ord) /\ SeqCap(MaxSeq)
    \/ RecvEnd(Origin) /\ SeqCap(MaxSeq)
    \/ \E d \in net : Lose(d)
    \/ UiRead(Origin)
    \/ UiTick(Origin)

SpecThreads == Init /\ [][NextThreads]_vars

(* --------------- envelopes that arrive in any order, or twice ---------- *)

\* The sequence numbers of the foreign host's envelopes: neighbours, and
\* numbers 63, 64 and more apart.
WindowSeqs == {1, 2, 3, 64, 65, 66, 67, 130}

\* An unreliable PONG of the foreign host with the sequence number seq.
foreign_pong(n, seq) ==
    _wrap(shard_key(n),
          make_envelope_epoch("PONG", Foreign, seq, 0, {}, shard_of(n), policy.protocol_epoch,
                              [ts |-> 0], FALSE, FALSE))

NextWindow ==
    \E seq \in WindowSeqs : \E ord \in KnownOrders(Origin) :
        /\ Len(Get(mesh[Origin].rate_counter, ExternalAddr, <<>>)) < MaxWindowArrivals
        /\ Arrive(Origin, foreign_pong(Origin, seq), ExternalAddr, ord)

SpecWindow == Init /\ [][NextWindow]_vars

(* ------------- datagrams whose JSON is not what an envelope is --------- *)

OddMembers == {"mac", "shard", "epoch", "seq", "ack", "ack_bits", "flags", "payload", "v"}

OddKinds == {"digits", "text", "float", "null", "array"}

\* A reliable PING of the foreign host, signed with the node's shard key, in
\* whose JSON the members of odd hold a value of another type.
foreign_odd(n, odd) ==
    LET body == foreign_envelope("PING", 3, {0, 1}, shard_of(n), policy.protocol_epoch,
                                 [ts |-> 0], TRUE)
    IN [kind |-> "json", body |-> body, odd |-> odd,
        mac |-> sign(shard_key(n), [body |-> body, odd |-> Del(odd, "mac")])]

\* What the foreign host sends: bytes that are no JSON, JSON that is no
\* object, a well-formed PING, and PINGs with one member of another type.
OddInputs(n) ==
    {[kind |-> "garbage"], [kind |-> "json_value"],
     foreign_ping(shard_of(n), policy.protocol_epoch, shard_key(n))}
    \cup {foreign_odd(n, Put(EmptyDict, k, kind)) : k \in OddMembers, kind \in OddKinds}

NextOdd ==
    \/ \E target \in Sectors : \E ord \in KnownOrders(Origin) :
            Jump(Origin, target, ord) /\ EventCap(MaxEvents)
    \/ \E data \in OddInputs(Origin) : \E ord \in KnownOrders(Origin) :
            External(Origin, data, ord)

SpecOdd == Init /\ [][NextOdd]_vars

(* ------------- a burst of datagrams from one source address ------------ *)

\* The node's player jumps, then the foreign host sends reliable PINGs as fast
\* as it can; the clock moves on by a second once the node has let a second's
\* worth of them pass.
NextRate ==
    \/ /\ mesh[Origin].rate_counter = EmptyDict
       /\ \E target \in Sectors : \E ord \in KnownOrders(Origin) :
            Jump(Origin, target, ord) /\ EventCap(MaxEvents)
    \/ \E ord \in KnownOrders(Origin) :
            Arrive(Origin, foreign_ping(shard_of(Origin), policy.protocol_epoch,
                                        shard_key(Origin)), ExternalAddr, ord)
    \/ /\ Len(rate_bucket(mesh[Origin], ExternalAddr)) >= policy.packets_per_sec
       /\ AdvanceWithin(10, MaxBurstNow)

SpecRate == Init /\ [][NextRate]_vars

(* ------------------ reliable sends that nobody answers ----------------- *)

\* How late after its sleep of 0.2 s the retransmit loop may run.
Lateness == {0, 1}

\* The retransmit loop keeps being scheduled: time does not pass the end of
\* its sleep by more than its lateness.
Scheduled == \E late \in Lateness : now' <= retransmit_wake[Origin] + late

NextRetransmit(events, send_by) ==
    \/ \E target \in Sectors : \E ord \in KnownOrders(Origin) :
            Jump(Origin, target, ord) /\ EventCap(events) /\ now <= send_by
    \/ Retransmit(Origin)
    \/ Advance(1) /\ Scheduled

SpecRetransmit == Init /\ [][NextRetransmit(MaxAckEvents, SendBy)]_vars

\* The same under fairness: the retransmit loop runs when its sleep is over,
\* and time passes.
SpecDrain ==
    /\ Init
    /\ [][NextRetransmit(MaxUnanswered, DrainSendBy)]_vars
    /\ WF_vars(Retransmit(Origin))
    /\ WF_vars(Advance(1) /\ Scheduled)

(* ----------------------- the peers a node has met ---------------------- *)

\* Membership.penalize as the application calls it on suspected misbehaviour,
\* for a peer of the table or for an id the table does not hold.
Penalize(n, peer_id, amount) ==
    /\ membership' = [membership EXCEPT ![n] = penalize(@, peer_id, amount)]
    /\ last' = [op |-> "penalize", node |-> n,
                data |-> [kind |-> "penalize", peer_id |-> peer_id, amount |-> amount],
                src |-> NoAddr,
                verdict |-> "none", app |-> "none", out |-> <<>>, delivered |-> <<>>,
                applied |-> <<>>, acked |-> {}, peers |-> membership[n]]
    /\ UNCHANGED <<runtime, task, thread, gossip>>
    /\ UNCHANGED <<mesh, netsplit, store, local_event_counter, net, now, retransmit_wake,
                   received, transmitted>>

\* The time between two steps, and the penalties for misbehaviour.
Pauses == {30}

Penalties == {45}

NextMembership ==
    \/ Announce(Other(Origin)) /\ SeqCap(MaxHello)
    \/ \E n \in Nodes : \E d \in net : \E ord \in KnownOrders(n) :
            Deliver(n, d, ord) /\ SeqCap(MaxHello)
    \/ \E p \in peer_ids(membership[Origin]) \cup {Foreign} : \E amount \in Penalties :
            Penalize(Origin, p, amount)
    \/ \E dt \in Pauses : Advance(dt)

SpecMembership == Init /\ [][NextMembership]_vars

(* --------------------- contact with a foreign peer --------------------- *)

\* The message types a peer sends, the ACK aside.
ContactTypes ==
    {"HELLO", "PEER_LIST", "PING", "PONG", "EVENT_BATCH",
     "SNAPSHOT_HASH", "SNAPSHOT_REQ", "SNAPSHOT_RES"}

\* A payload of each type as the foreign peer sends it: its PEER_LIST names
\* a third peer, its batch and its snapshot are empty.
contact_payload(msg_type) ==
    CASE msg_type = "HELLO" -> [nick |-> Foreign, port |-> LISTEN_PORT]
      [] msg_type = "PEER_LIST" ->
            [peers |-> <<[id |-> "Y", host |-> "Y", port |-> LISTEN_PORT, nick |-> "Y"]>>]
      [] msg_type \in {"PING", "PONG"} -> [ts |-> 0]
      [] msg_type = "EVENT_BATCH" -> [events |-> <<>>]
      [] msg_type = "SNAPSHOT_HASH" -> [hash |-> <<>>]
      [] msg_type = "SNAPSHOT_RES" -> [players |-> <<>>, hash |-> <<>>]
      [] OTHER -> EmptyDict

\* The authenticated envelopes of the foreign peer, one of each type.
ContactInputs(n) ==
    {_wrap(shard_key(n),
           foreign_envelope(t, 0, {}, shard_of(n), policy.protocol_epoch,
                            contact_payload(t), FALSE)) : t \in ContactTypes}

\* The time between two steps of the netsplit scenario: 10.5 s. The foreign
\* peer sends one datagram in a second at most.
Waits == {105}

NextNetsplit ==
    \/ \E data \in ContactInputs(Origin) : \E ord \in KnownOrders(Origin) :
            /\ rate_bucket(mesh[Origin], ExternalAddr) = <<>>
            /\ External(Origin, data, ord) /\ SeqCap(MaxContacts)
    \/ PublicState(Origin)
    \/ \E dt \in Waits : AdvanceWithin(dt, MaxClock)

SpecNetsplit == Init /\ [][NextNetsplit]_vars

(* ----------------------- snapshot reconciliation ----------------------- *)

\* The player rows of the foreign peer's snapshot: a player the node has no
\* record of, the node's own player under another nick and with other
\* resources, a row without an id, and a row without a nick.
foreign_rows(n) ==
    << [player_id |-> Foreign, nick |-> Foreign, credits |-> 5, ore |-> 5, gas |-> 5,
        crystal |-> 5, hp |-> 5, sector |-> 2, updated_ts |-> now],
       [player_id |-> sender_id(n), nick |-> "renamed", credits |-> 5, ore |-> 5, gas |-> 5,
        crystal |-> 5, hp |-> 5, sector |-> 2, updated_ts |-> now],
       [nick |-> "nobody"],
       [player_id |-> "Y"] >>

\* The foreign peer's SNAPSHOT_HASH with the node's own hash (the two are in
\* sync), and its SNAPSHOT_RES.
SnapshotInputs(n) ==
    {_wrap(shard_key(n),
           foreign_envelope("SNAPSHOT_HASH", 0, {}, shard_of(n), policy.protocol_epoch,
                            [hash |-> snapshot_hash(store[n])], FALSE)),
     _wrap(shard_key(n),
           foreign_envelope("SNAPSHOT_RES", 0, {}, shard_of(n), policy.protocol_epoch,
                            [players |-> foreign_rows(n), hash |-> <<>>], FALSE))}

\* The other node announces itself when it starts; the origin's beacon is
\* among its first two envelopes (the 11 s between two beacons are longer than
\* the scenario); the foreign peer sends one envelope, its first.
NextSnapshot ==
    \/ Announce(Other(Origin)) /\ mesh[Other(Origin)].next_seq = 1
    \/ SnapshotBeacon(Origin) /\ mesh[Origin].next_seq <= 2
    \/ \E n \in Nodes : \E d \in net : \E ord \in KnownOrders(n) :
            Deliver(n, d, ord) /\ SeqCap(MaxSnapSeq)
    \/ \E data \in SnapshotInputs(Origin) : \E ord \in KnownOrders(Origin) :
            /\ <<Foreign, 1>> \notin received[Origin]
            /\ External(Origin, data, ord) /\ SeqCap(MaxSnapSeq)
    \/ \E dt \in Pauses : AdvanceWithin(dt, MaxSnapNow)

SpecSnapshot == Init /\ [][NextSnapshot]_vars

(* ------------------- signing and verifying envelopes ------------------- *)

\* The items of an envelope in the order make_envelope inserts them, the
\* epoch that ReliableMesh passes after the shard.
envelope_items(e, payload_items) ==
    << <<"v", e.v>>, <<"type", e.type>>, <<"sender", e.sender>>, <<"seq", e.seq>>,
       <<"ack", e.ack>>, <<"ack_bits", e.ack_bits>>, <<"ts", e.ts>>, <<"shard", e.shard>>,
       <<"epoch", e.epoch>>, <<"flags", e.flags>>, <<"payload", payload_items>> >>

Reverse(seq) == [i \in DOMAIN seq |-> seq[Len(seq) + 1 - i]]

set_item(items, k, v) ==
    [i \in DOMAIN items |-> IF items[i][1] = k THEN <<k, v>> ELSE items[i]]

\* The HELLO of test_envelope_sign_verify.
HelloItems ==
    envelope_items(make_envelope_epoch("HELLO", "peer1", 1, 0, {}, "alpha", 1, <<>>, FALSE, FALSE),
                   << <<"nick", "cap">>, <<"port", LISTEN_PORT>> >>)

\* For every field a value other than the HELLO's.
OtherValues ==
    << <<"v", 2>>, <<"type", "PING">>, <<"sender", "peer2">>, <<"seq", 2>>, <<"ack", 1>>,
       <<"ack_bits", {0}>>, <<"ts", 1>>, <<"shard", "beta">>, <<"epoch", 2>>,
       <<"flags", {"reliable"}>>, <<"nick", "tampered">>, <<"port", 0>> >>

\* The HELLO with one field changed, at the top or in the payload.
changed(items, k, v) ==
    IF k \in item_keys(items) THEN set_item(items, k, v)
    ELSE set_item(items, "payload", set_item(item_value(items, "payload"), k, v))

\* The contents: the HELLO, the HELLO with one field changed, and the HELLO
\* without its epoch field.
Contents ==
    {HelloItems} \cup {changed(HelloItems, OtherValues[i][1], OtherValues[i][2]) :
                            i \in DOMAIN OtherValues}
                \cup {SelectSeq(HelloItems, LAMBDA it : it[1] # "epoch")}

\* Every content built in the order of make_envelope or in the reverse of
\* it, its payload likewise.
Envelopes ==
    UNION {{c, Reverse(c),
            set_item(c, "payload", Reverse(item_value(c, "payload"))),
            Reverse(set_item(c, "payload", Reverse(item_value(c, "payload"))))} : c \in Contents}

\* auth.sign(envelope) with the shard key of the node.
Sign(n, e) ==
    /\ last.op = "init"
    /\ last' = [last EXCEPT !.op = "sign", !.node = n,
                            !.data = [kind |-> "dict", envelope |-> e,
                                      mac |-> sign_dict(shard_key(n), e)]]
    /\ UNCHANGED <<runtime, task, thread, gossip>>
    /\ UNCHANGED <<mesh, membership, netsplit, store, local_event_counter, net, now,
                   retransmit_wake, received, transmitted>>

\* auth.verify(presented, mac) with the MAC of the signed envelope.
Verify(n, presented) ==
    /\ last.op = "sign" /\ last.node = n
    /\ last' = [last EXCEPT !.op = "verify",
                            !.data = [kind |-> "dict", envelope |-> last.data.envelope,
                                      mac |-> last.data.mac, presented |-> presented],
                            !.verdict = IF verify_dict(shard_key(n), presented, last.data.mac)
                                        THEN "verified" ELSE "reject"]
    /\ UNCHANGED <<runtime, task, thread, gossip>>
    /\ UNCHANGED <<mesh, membership, netsplit, store, local_event_counter, net, now,
                   retransmit_wake, received, transmitted>>

NextSign ==
    \/ \E e \in Envelopes : Sign(Origin, e)
    \/ \E e \in Envelopes : Verify(Origin, e)

SpecSign == Init /\ [][NextSign]_vars

(* ------------------- calls of send and of broadcast -------------------- *)

\* The messages the application sends, with their payloads.
SendTypes == {"PING", "ALLIANCE_INVITE"}

send_payload(msg_type) ==
    IF msg_type = "PING" THEN [ts |-> 0] ELSE [target |-> Foreign, alliance_id |-> "a1"]

\* The application sends to the other node and to the foreign host and
\* broadcasts, reliably and not, and the retransmit loop runs.
NextSend ==
    \/ \E t \in SendTypes : \E addr \in {addr_of(Other(Origin)), ExternalAddr} :
        \E reliable \in BOOLEAN :
            Send(Origin, t, send_payload(t), addr, reliable) /\ SeqCap(MaxSendSeq)
    \/ \E t \in SendTypes : \E reliable \in BOOLEAN :
            Broadcast(Origin, t, send_payload(t), LISTEN_PORT, reliable) /\ SeqCap(MaxSendSeq)
    \/ Retransmit(Origin)
    \/ AdvanceWithin(5, MaxSendNow)

SpecSend == Init /\ [][NextSend]_vars

(* ------------- reliable envelopes outstanding to two peers ------------- *)

\* The acknowledgments the foreign peer sends: of the sequence numbers 3 and
\* 4 alone, and what a ReliableMesh answers that has received the sequence
\* numbers 2 and 4, or 2 and 3.
PeerAcks == {<<3, {}>>, <<4, {}>>, <<4, {0, 2}>>, <<3, {0, 1}>>}

\* The other node and the foreign peer announce themselves to the node, the
\* node's player jumps and the event goes to both peers reliably; the foreign
\* peer acknowledges.
NextTwoPeers ==
    \/ /\ mesh[Other(Origin)].next_seq = 1
       /\ Announce(Other(Origin))
    \/ \E d \in net : \E ord \in KnownOrders(Origin) :
            Deliver(Origin, d, ord) /\ SeqCap(MaxAckSeq)
    \/ \E d \in net : Lose(d)
    \/ \E ord \in KnownOrders(Origin) :
            /\ Foreign \notin peer_ids(membership[Origin])
            /\ External(Origin,
                        _wrap(shard_key(Origin),
                              foreign_envelope("HELLO", 0, {}, shard_of(Origin),
                                               policy.protocol_epoch, contact_payload("HELLO"),
                                               FALSE)),
                        ord)
            /\ SeqCap(MaxAckSeq)
    \/ \E target \in Sectors : \E ord \in KnownOrders(Origin) :
            Jump(Origin, target, ord) /\ EventCap(MaxEvents) /\ SeqCap(MaxAckSeq)
    \/ \E a \in PeerAcks : \E ord \in KnownOrders(Origin) :
            /\ Foreign \in peer_ids(membership[Origin])
            /\ External(Origin, foreign_ack(Origin, a[1], a[2]), ord)

SpecTwoPeers == Init /\ [][NextTwoPeers]_vars

(* ------ sends, broadcasts, ACK-only replies and retransmissions -------- *)

\* The node pings the other node and, while nothing is in flight, broadcasts
\* pings, reliably and not; the nodes answer what reaches them, and the
\* node's retransmit loop runs.
NextSeq ==
    \/ \E reliable \in BOOLEAN :
            /\ Send(Origin, "PING", send_payload("PING"), addr_of(Other(Origin)), reliable)
            /\ SeqCap(MaxOriginated)
    \/ \E reliable \in BOOLEAN :
            /\ net = {}
            /\ Broadcast(Origin, "PING", send_payload("PING"), LISTEN_PORT, reliable)
            /\ SeqCap(MaxOriginated)
    \/ \E n \in Nodes : \E d \in net : \E ord \in KnownOrders(n) :
            Deliver(n, d, ord) /\ SeqCap(MaxOriginated)
    \/ Retransmit(Origin)
    \/ AdvanceWithin(5, MaxSendNow)

SpecSeq == Init /\ [][NextSeq]_vars

(* ------------------- events fanned out to the peers ------------------- *)

\* The peers of the shard that the foreign peer knows.
PeerNames == <<"P1", "P2", "P3", "P4", "P5", "P6">>

\* The peers the foreign peer names in its PEER_LIST, the first k of them.
Listed(k) ==
    [i \in 1..k |-> [id |-> PeerNames[i], host |-> PeerNames[i], port |-> LISTEN_PORT,
                     nick |-> PeerNames[i]]]

foreign_peer_list(n, k) ==
    _wrap(shard_key(n),
          foreign_envelope("PEER_LIST", 0, {}, shard_of(n), policy.protocol_epoch,
                           [peers |-> Listed(k)], FALSE))

\* An event of the first listed peer, as it leaves its originator.
foreign_event ==
    LET payload == [player_id |-> PeerNames[1], nick |-> PeerNames[1], from |-> 1, to |-> 2]
    IN with_hops(compact_event("jump", payload, PeerNames[1],
                               [sender |-> PeerNames[1], counter |-> 1, ts |-> 0, base |-> payload]),
                 0)

foreign_batch(n) ==
    _wrap(shard_key(n),
          foreign_envelope("EVENT_BATCH", 0, {}, shard_of(n), policy.protocol_epoch,
                           [events |-> <<foreign_event>>], FALSE))

\* The foreign peer sends a peer list, its first datagram in a second, and a
\* batch with an event of a listed peer, or the node's player jumps: the
\* event is the first thing the node sends.  The listed peers age.
NextFanout ==
    \/ \E k \in {1, MaxListed - 1, MaxListed} :
            /\ rate_bucket(mesh[Origin], ExternalAddr) = <<>>
            /\ Arrive(Origin, foreign_peer_list(Origin, k), ExternalAddr, <<>>)
    \/ \E ord \in KnownOrders(Origin) :
            /\ mesh[Origin].next_seq = 1
            /\ Len(rate_bucket(mesh[Origin], ExternalAddr)) < MaxFanoutArrivals
            /\ Arrive(Origin, foreign_batch(Origin), ExternalAddr, ord)
    \/ \E target \in Sectors : \E ord \in KnownOrders(Origin) :
            /\ mesh[Origin].next_seq = 1
            /\ Jump(Origin, target, ord) /\ EventCap(MaxEvents)
    \/ AdvanceWithin(MaxFanoutNow, MaxFanoutNow)

SpecFanout == Init /\ [][NextFanout]_vars

(* --------------- two nodes gossip about a silent third ---------------- *)

\* _tick_loop announces in every second that is a multiple of 8.
AnnouncePeriod == 80

\* The other node has heard the HELLO that n sent in this second.
heard(n) ==
    \E i \in DOMAIN membership[Other(n)] :
        /\ membership[Other(n)][i].peer_id = sender_id(n)
        /\ membership[Other(n)][i].last_seen = now

\* The foreign peer says HELLO to the node once, in the first second, and is
\* silent ever after.  The two nodes announce themselves every 8 s and
\* answer each other's HELLO with their PEER_LIST; the network delivers
\* everything within the second.
GossipHello ==
    \E ord \in KnownOrders(Origin) :
        /\ now = 0
        /\ Foreign \notin peer_ids(membership[Origin])
        /\ Arrive(Origin,
                  _wrap(shard_key(Origin),
                        foreign_envelope("HELLO", 0, {}, shard_of(Origin),
                                         policy.protocol_epoch, contact_payload("HELLO"),
                                         FALSE)),
                  ExternalAddr, ord)

\* The node announces first, the other node once it has heard it.
GossipAnnounce(n) ==
    /\ net = {}
    /\ ~heard(n)
    /\ n = Origin \/ heard(Origin)
    /\ Announce(n)

GossipDeliver == \E n \in Nodes : \E d \in net : \E ord \in KnownOrders(n) : Deliver(n, d, ord)

\* The nodes have exchanged the HELLOs of this second and their answers.
Exchanged == net = {} /\ \A n \in Nodes : heard(n)

GossipAdvance ==
    /\ Exchanged
    /\ AdvanceWithin(AnnouncePeriod, MaxGossipNow)

NextGossip ==
    \/ GossipHello
    \/ \E n \in Nodes : GossipAnnounce(n)
    \/ GossipDeliver
    \/ GossipAdvance

\* The loops of the nodes keep running: the announcements of a second are
\* sent and received over and over, and time passes.
SpecGossip ==
    /\ Init
    /\ [][NextGossip]_vars
    /\ []<>Exchanged
    /\ WF_vars(GossipAdvance)

(* ------------- make_envelope as net/messages.py defines it ------------ *)

\* The keyword-only parameters of make_envelope.
make_envelope_params ==
    {"msg_type", "sender", "seq", "ack", "ack_bits", "shard", "payload", "reliable", "ack_only"}

\* The keywords that send and broadcast call make_envelope with.
send_keywords ==
    {"msg_type", "sender", "seq", "ack", "ack_bits", "shard", "epoch", "payload", "reliable"}

\* A call binds if each of its keywords is a parameter; Python raises
\* TypeError for any other keyword.
binds(keywords) == keywords \subseteq make_envelope_params

\* ReliableMesh.send with that make_envelope: the sequence number is taken,
\* and the call of make_envelope raises before anything is wrapped or sent.
send_built(st, msg_type, payload, addr, reliable) ==
    LET seq == st.mesh.next_seq
        ab == _ack_bits(st.mesh, sender_id(st.id))
        took == [st EXCEPT !.mesh.next_seq = seq + 1]
        raw == _wrap(shard_key(st.id),
                     make_envelope(msg_type, sender_id(st.id), seq, ab[1], ab[2],
                                   shard_of(st.id), payload, reliable, FALSE))
        sent == transport_send([took EXCEPT !.ret = seq], raw, addr)
    IN IF ~binds(send_keywords) THEN [took EXCEPT !.verdict = "raised"]
       ELSE IF reliable
       THEN [sent EXCEPT !.mesh.pending = Put(@, seq, PendingPacket(addr, raw, now, 0))]
       ELSE sent

\* The application calls mesh.send or mesh.broadcast (op says which); the
\* exception goes to the caller.
SendBuilt(n, op, msg_type, payload, addr, reliable) ==
    LET st == send_built(NodeState(n), msg_type, payload, addr, reliable)
    IN /\ mesh' = [mesh EXCEPT ![n] = st.mesh]
       /\ net' \in transmit_choices(net, datagrams_of(n, st.out))
       /\ transmitted' = [transmitted EXCEPT ![n] = counted(@, st.out)]
       /\ last' = [op |-> op, node |-> n,
                   data |-> [kind |-> "call", msg_type |-> msg_type, payload |-> payload,
                             reliable |-> reliable, ret |-> st.ret],
                   src |-> addr, verdict |-> st.verdict, app |-> st.app, out |-> st.out,
                   delivered |-> st.delivered, applied |-> st.applied, acked |-> st.acked,
                   peers |-> membership[n]]
       /\ UNCHANGED <<membership, netsplit, store, local_event_counter, now, retransmit_wake,
                      received, runtime, task, thread, gossip>>

\* The datagram of an envelope that make_envelope built for the node n, with
\* every member it gives an envelope, signed by _wrap and not modified.
built_datagram(n, msg_type, seq, reliable) ==
    _wrap(shard_key(n),
          make_envelope(msg_type, sender_id(n), seq, 0, {}, shard_of(n),
                        send_payload(msg_type), reliable, FALSE))

\* The node calls send and broadcast; datagrams with envelopes that
\* make_envelope built for it reach the other node.
NextWire ==
    \/ \E t \in SendTypes : \E reliable \in BOOLEAN :
            /\ SendBuilt(Origin, "send", t, send_payload(t), addr_of(Other(Origin)), reliable)
            /\ SeqCap(MaxWireSeq)
    \/ \E t \in SendTypes : \E reliable \in BOOLEAN :
            /\ SendBuilt(Origin, "broadcast", t, send_payload(t),
                         <<BROADCAST_HOST, LISTEN_PORT>>, reliable)
            /\ SeqCap(MaxWireSeq)
    \/ \E t \in SendTypes : \E reliable \in BOOLEAN : \E seq \in 1..MaxWireSeq :
            /\ Len(rate_bucket(mesh[Other(Origin)], addr_of(Origin))) < MaxWireArrivals
            /\ Arrive(Other(Origin), built_datagram(Origin, t, seq, reliable),
                      addr_of(Origin), <<>>)
    \/ AdvanceWithin(5, MaxSendNow)

SpecWire == Init /\ [][NextWire]_vars

(* ------------------------ adds to a GossipBuffer ---------------------- *)

\* The event identifiers and the payloads that are added.
IdNames == <<"e1", "e2", "e3", "e4", "e5", "e6", "e7">>

EventIds == {IdNames[i] : i \in 1..MaxIds}

Payloads == {[n |-> 1], [n |-> 2]}

\* A call of GossipBuffer.add.
Add(eid, payload) ==
    LET r == add(gossip.buffer, eid, payload)
    IN /\ gossip' = [buffer |-> r.buffer,
                     accepted |-> IF r.ret THEN gossip.accepted \cup {eid}
                                  ELSE gossip.accepted]
       /\ last' = [op |-> "add", node |-> "",
                   data |-> [kind |-> "call", event_id |-> eid, payload |-> payload,
                             ret |-> r.ret],
                   src |-> NoAddr, verdict |-> "none", app |-> "none", out |-> <<>>,
                   delivered |-> <<>>, applied |-> <<>>, acked |-> {}, peers |-> <<>>]
       /\ UNCHANGED <<mesh, membership, netsplit, store, local_event_counter, net, now,
                      retransmit_wake, received, transmitted, runtime, task, thread>>

NextBuffer == \E eid \in EventIds : \E payload \in Payloads : Add(eid, payload)

SpecBuffer == Init /\ [][NextBuffer]_vars

(* ------------------------------ properties ----------------------------- *)

\* What the nodes replicate of a store: the players' resources, hp and
\* sector, the battles and the owners of the sectors.
replicated(s) ==
    [players |-> [pid \in DOMAIN s.players |->
                    [credits |-> s.players[pid].credits, hp |-> s.players[pid].hp,
                     sector |-> s.players[pid].sector]],
     battles |-> s.battles,
     sectors |-> s.sectors]

\* The envelopes of the given type among the transmissions of a step.
sent_of_type(out, msg_type) ==
    {out[i].raw.body : i \in {j \in DOMAIN out : out[j].raw.body.type = msg_type}}

events_of(msg) == Get(msg.payload, "events", <<>>)

\* The last step handled an EVENT_BATCH at the node n.
HandledBatch(n) ==
    /\ last.op = "recv" /\ last.node = n /\ last.app = "handled"
    /\ last.data.body.type = "EVENT_BATCH"

\* C1: once a node has recorded an event identifier, handling a later
\* EVENT_BATCH whose events all carry recorded identifiers changes none of the
\* node's replicated state and sends no EVENT_BATCH.
C1_DuplicateIsIgnored ==
    [][\A n \in Nodes :
          (/\ HandledBatch(n)'
           /\ \A i \in DOMAIN events_of(last'.data.body) :
                 events_of(last'.data.body)[i].event_id \in logged_ids(store[n]))
          => /\ replicated(store'[n]) = replicated(store[n])
             /\ sent_of_type(last'.out, "EVENT_BATCH") = {}]_vars

\* C7: an event a node originates leaves with hops = 0; an EVENT_BATCH sent
\* while handling a received one carries only events received with
\* hops < max_event_hops, each with one hop more; so no EVENT_BATCH in flight
\* carries an event with hops > max_event_hops.
C7_HopLimit ==
    /\ last.op \in {"tick", "jump"} =>
          \A msg \in sent_of_type(last.out, "EVENT_BATCH") :
              \A i \in DOMAIN events_of(msg) : events_of(msg)[i].hops = 0
    /\ last.op = "recv" =>
          \A msg \in sent_of_type(last.out, "EVENT_BATCH") :
              \A i \in DOMAIN events_of(msg) :
                  \E j \in DOMAIN events_of(last.data.body) :
                      LET got == events_of(last.data.body)[j]
                      IN /\ got.event_id = events_of(msg)[i].event_id
                         /\ got.hops < policy.max_event_hops
                         /\ events_of(msg)[i].hops = got.hops + 1
    /\ \A d \in net :
          d.raw.body.type = "EVENT_BATCH" =>
              \A i \in DOMAIN events_of(d.raw.body) :
                  events_of(d.raw.body)[i].hops <= policy.max_event_hops

\* A node applied an event that arrived with hops = max_event_hops and sent
\* no EVENT_BATCH for it.
C7_Witness ==
    /\ \E n \in Nodes : HandledBatch(n)
    /\ last.applied # <<>>
    /\ \E i \in DOMAIN events_of(last.data.body) :
          events_of(last.data.body)[i].hops = policy.max_event_hops
    /\ sent_of_type(last.out, "EVENT_BATCH") = {}


\* The last step accepted, at the node n, an ACK-only envelope of another node.
AcceptedAckOnly(n) ==
    /\ last.op = "recv" /\ last.node = n /\ last.verdict = "accepted"
    /\ last.data.body.type = "ACK"
    /\ last.data.body.sender # sender_id(n)

\* C2: the ACK-only envelope a node sends for the reliable envelope with
\* sequence s that it accepted, once its sender has applied it, leaves no
\* PendingPacket for s at that sender, whatever the order of arrival was.
C2_AckClearsPending ==
    \A n \in Nodes :
        AcceptedAckOnly(n) => last.data.body.payload.for \notin DOMAIN mesh[n].pending

\* C3: the PendingPackets that the acknowledgment of an ACK-only envelope
\* removes are of sequences its sender had received.
C3_AckedWasReceived ==
    \A n \in Nodes :
        AcceptedAckOnly(n) =>
            \A p \in last.acked :
                \E m \in Nodes : /\ sender_id(m) = last.data.body.sender
                                 /\ <<sender_id(n), p>> \in received[m]

\* The step to the next state is recv_loop accepting an envelope at the node n.
Accepts(n) == last'.op = "recv" /\ last'.node = n /\ last'.verdict = "accepted"

\* C4: the acknowledgment (ack, ack_bits) of an accepted envelope removes of
\* the PendingPackets exactly those of a sequence p with p = ack, or with
\* p < ack, ack - p <= 64 and the bit ack - p - 1 in ack_bits; the others stay
\* as they were, and an ACK-only envelope adds none.
C4_ApplyAckExact ==
    [][\A n \in Nodes :
          Accepts(n) =>
              LET ack == last'.data.body.ack
                  ack_bits == last'.data.body.ack_bits
                  before == DOMAIN mesh[n].pending
                  covered == {p \in before :
                                \/ p = ack
                                \/ p < ack /\ ack - p <= 64 /\ (ack - p - 1) \in ack_bits}
              IN /\ DOMAIN mesh'[n].pending \cap before = before \ covered
                 /\ \A p \in before \ covered : mesh'[n].pending[p] = mesh[n].pending[p]
                 /\ last'.data.body.type = "ACK" => DOMAIN mesh'[n].pending \subseteq before]_vars

\* An acknowledgment with ack 64 above a pending sequence and the bit 63 set
\* removed that PendingPacket and left a lower one.
C4_Witness ==
    /\ last.op = "recv" /\ last.verdict = "accepted"
    /\ last.data.body.type = "ACK"
    /\ \E p \in last.acked : last.data.body.ack - p = 64
    /\ mesh[last.node].pending # EmptyDict

\* The datagram fails the receiver's authentication: it is no envelope, its
\* MAC is not the one of its content under the node's key, or its shard or
\* its epoch is not the node's.
Unauthentic(n, data) ==
    \/ data.kind # "json"
    \/ data.mac # sign(shard_key(n), data.body)
    \/ data.body.shard # shard_of(n)
    \/ Get(data.body, "epoch", -1) # policy.protocol_epoch

\* C5: a datagram that fails the authentication reaches no callback, causes
\* no transmission and leaves the pending set and the acknowledgment window
\* of every sender as they were.
C5_UnauthenticDropped ==
    [][\A n \in Nodes :
          (last'.op = "recv" /\ last'.node = n /\ Unauthentic(n, last'.data))
          => /\ last'.delivered = <<>>
             /\ last'.out = <<>>
             /\ net' \subseteq net
             /\ mesh'[n].pending = mesh[n].pending
             /\ mesh'[n].highest_remote_seq = mesh[n].highest_remote_seq
             /\ mesh'[n].recv_window = mesh[n].recv_window
             /\ store'[n] = store[n] /\ membership'[n] = membership[n]]_vars

\* A node with PendingPackets dropped a reliable envelope that acknowledges
\* them and is signed with the key of another epoch.
C5_Witness ==
    /\ last.op = "recv" /\ last.verdict = "mac"
    /\ last.data.mac.key = derive_shard_key(shard_of(last.node), policy.protocol_epoch + 1, "")
    /\ "reliable" \in last.data.body.flags
    /\ \E p \in DOMAIN mesh[last.node].pending :
          acked(p, last.data.body.ack, last.data.body.ack_bits)

\* C6: an authenticated envelope of a protocol version outside the policy's
\* range gets no response and the application does not act on it.
C6_VersionDropped ==
    \A n \in Nodes :
        (/\ last.op = "recv" /\ last.node = n
         /\ ~Unauthentic(n, last.data)
         /\ ~(last.data.body.v \in policy.min_protocol_version..policy.max_protocol_version))
        => last.out = <<>> /\ last.app = "version"

C9_PendingDrains == <>[](mesh[Origin].pending = EmptyDict)

\* A reliable send has left a PendingPacket that nothing acknowledges.
C9_Witness ==
    /\ mesh[Origin].pending # EmptyDict
    /\ \E s \in DOMAIN mesh[Origin].pending : mesh[Origin].pending[s].retries = 6

\* The ages, in tenths of a second, that healthy and stale are asked for.
MaxAges == {10, 30, 50}

\* The last step's handler called seen() for the peer p at the node n.
SeenCalled(n, p) ==
    /\ last.op = "recv" /\ last.node = n /\ last.app = "handled"
    /\ \/ last.data.body.type = "HELLO" /\ last.data.body.sender = p
       \/ /\ last.data.body.type = "PEER_LIST"
          /\ p # sender_id(n)
          /\ \E i \in DOMAIN Get(last.data.body.payload, "peers", <<>>) :
                last.data.body.payload.peers[i].id = p

\* The peer p was known to the node of the last step before it, and last
\* seen more than max_age ago.
WasStale(p, max_age) ==
    \E i \in DOMAIN last.peers :
        last.peers[i].peer_id = p /\ now - last.peers[i].last_seen > max_age

\* A peer last seen more than max_age ago is not healthy and is stale; the
\* table holds one record per peer id and loses none.
AgedOut ==
    \A n \in Nodes : \A max_age \in MaxAges :
        /\ \A i \in DOMAIN membership[n] :
              now - membership[n][i].last_seen > max_age =>
                  /\ membership[n][i].peer_id \notin peer_ids(healthy(membership[n], max_age))
                  /\ membership[n][i].peer_id \in peer_ids(stale(membership[n], max_age))
        /\ \A i, j \in DOMAIN membership[n] :
              membership[n][i].peer_id = membership[n][j].peer_id => i = j
        /\ last.node = n /\ last.op \in {"recv", "penalize"} =>
              peer_ids(last.peers) \subseteq peer_ids(membership[n])

C11_StaleIsComplement ==
    \A n \in Nodes : \A max_age \in MaxAges : \A i \in DOMAIN membership[n] :
        membership[n][i].peer_id \in peer_ids(healthy(membership[n], max_age))
            <=> membership[n][i].peer_id \notin peer_ids(stale(membership[n], max_age))

\* The record of the peer p in a table, the table holding one.
peer_of(peers, p) == peers[CHOOSE i \in DOMAIN peers : peers[i].peer_id = p]

\* C12: a score starts at 100, stays within 0..100 and never rises: a
\* handler that calls seen() leaves the scores of the known peers as they
\* were and enters a new peer with 100; penalize lowers the score of its
\* peer by the amount, not below 0, leaves the other scores alone, and
\* changes nothing for an id the table does not hold.
C12_ScoreOnlyDecays ==
    \A n \in Nodes :
        /\ \A i \in DOMAIN membership[n] : membership[n][i].score \in 0..100
        /\ last.node = n /\ last.op \in {"recv", "announce"} =>
              \A i \in DOMAIN membership[n] :
                  LET peer == membership[n][i]
                  IN IF peer.peer_id \in peer_ids(last.peers)
                     THEN peer.score = peer_of(last.peers, peer.peer_id).score
                     ELSE peer.score = 100
        /\ last.node = n /\ last.op = "penalize" =>
              /\ last.data.peer_id \notin peer_ids(last.peers) => membership[n] = last.peers
              /\ peer_ids(membership[n]) = peer_ids(last.peers)
              /\ \A i \in DOMAIN membership[n] :
                    LET peer == membership[n][i]
                        before == peer_of(last.peers, peer.peer_id).score
                    IN /\ peer.score <= before
                       /\ peer.score = IF peer.peer_id = last.data.peer_id
                                       THEN Max(0, before - last.data.amount)
                                       ELSE before

\* A peer penalized down to the floor of 0 was sighted again.
C12_Witness ==
    \E p \in peer_ids(membership[Origin]) :
        /\ SeenCalled(Origin, p)
        /\ p \in peer_ids(last.peers)
        /\ peer_of(last.peers, p).score = 0
        /\ peer_of(membership[Origin], p).score = 0

\* The peer counts and the timeouts, in tenths of a second, that tick is
\* asked with.
PeerCounts == 0..2

Timeouts == {100, 200, 300}

\* What tick(peer_count, timeout) must make of the tracker ns.
ticked(ns, peer_count, timeout) ==
    [last_peer_seen_ts |-> ns.last_peer_seen_ts,
     split_active |-> ns.split_active
                        \/ (peer_count = 0 /\ now - ns.last_peer_seen_ts > timeout),
     merge_count |-> ns.merge_count]

\* C13: tick(peer_count, timeout) sets split_active exactly when peer_count
\* is 0 and the last on_peer_seen (or the construction) is more than timeout
\* ago, leaves it as it was otherwise, and leaves merge_count and the time of
\* the last contact alone; so does public_state, which ticks with the number
\* of healthy peers and the timeout of 20 s.
C13_TickSetsSplit ==
    [][/\ \A pc \in PeerCounts : \A timeout \in Timeouts :
            tick(netsplit[Origin], pc, timeout) = ticked(netsplit[Origin], pc, timeout)
       /\ last'.op = "public_state" =>
            netsplit'[Origin] =
                ticked(netsplit[Origin], Len(healthy(membership[Origin], 300)), 200)]_vars

\* public_state found the node alone for the second time, after a merge, and
\* the split is active.
C13_Witness ==
    /\ last.op = "public_state"
    /\ netsplit[Origin].split_active
    /\ netsplit[Origin].merge_count = 1
    /\ membership[Origin] # <<>>

\* The last step's handler called on_peer_seen at the node n.
PeerSeenCalled(n) ==
    /\ last.op = "recv" /\ last.node = n /\ last.app = "handled"
    /\ last.data.body.type \in {"HELLO", "PONG"}

\* C14: on_peer_seen leaves split_active false and adds 1 to merge_count
\* exactly if the split was active; over all steps merge_count never falls and
\* counts the split episodes that have ended (it rises by 1 exactly in the
\* steps in which an active split ends).
C14_MergeCountsEpisodes ==
    [][/\ on_peer_seen(netsplit[Origin]) =
            [last_peer_seen_ts |-> now, split_active |-> FALSE,
             merge_count |-> netsplit[Origin].merge_count
                                + (IF netsplit[Origin].split_active THEN 1 ELSE 0)]
       /\ PeerSeenCalled(Origin)' => netsplit'[Origin] = on_peer_seen(netsplit[Origin])
       /\ netsplit'[Origin].merge_count =
            netsplit[Origin].merge_count
                + (IF netsplit[Origin].split_active /\ ~netsplit'[Origin].split_active
                   THEN 1 ELSE 0)]_vars

\* A contact ended the node's second split episode.
C14_Witness ==
    /\ PeerSeenCalled(Origin)
    /\ ~netsplit[Origin].split_active
    /\ netsplit[Origin].merge_count = 2
    /\ netsplit[Origin].last_peer_seen_ts = now

\* C15 as stated: with a split active, the next authenticated envelope of
\* another peer that the node handles, of whatever type, leaves split_active
\* false; and split_active is not true while the peer just heard from is healthy.
C15_ContactClearsSplit ==
    [][last'.op = "recv" /\ last'.node = Origin /\ last'.app = "handled" =>
            /\ netsplit[Origin].split_active => ~netsplit'[Origin].split_active
            /\ last'.data.body.sender \in peer_ids(healthy(membership'[Origin], 300)) =>
                    ~netsplit'[Origin].split_active]_vars

\* The dict as a value: what == compares in Python, the order of insertion
\* forgotten.
RECURSIVE as_record(_)
as_record(items) ==
    [k \in item_keys(items) |->
        IF k = "payload" THEN as_record(item_value(items, k)) ELSE item_value(items, k)]

\* C16: under one shard key, verify(e', sign(e)) is true exactly if e' equals
\* e in every field, those of the payload included: a field changed after the
\* signing makes verify fail, and the same content signed again, in whatever
\* order its fields were inserted, has the same MAC.
C16_VerifyIffEqual ==
    /\ last.op = "verify" =>
          (last.verdict = "verified"
              <=> as_record(last.data.presented) = as_record(last.data.envelope))
    /\ last.op = "sign" =>
          \A e \in Envelopes :
              as_record(e) = as_record(last.data.envelope) =>
                  sign_dict(shard_key(last.node), e) = last.data.mac

\* verify accepted the signed content built in another order of insertion.
C16_Witness ==
    /\ last.op = "verify" /\ last.verdict = "verified"
    /\ last.data.presented # last.data.envelope
    /\ item_value(last.data.presented, "payload") # item_value(last.data.envelope, "payload")

\* The step to the next state is the node n handling an envelope of the type.
Handles(n, msg_type) ==
    /\ last'.op = "recv" /\ last'.node = n /\ last'.app = "handled"
    /\ last'.data.body.type = msg_type

\* The ids of the players that a SNAPSHOT_RES lists.
listed_ids(payload) ==
    {Get(payload.players[i], "player_id", "") : i \in DOMAIN payload.players} \ {""}

\* The fields of a player record that the game replicates.
game_fields(p) ==
    [credits |-> p.credits, ore |-> p.ore, gas |-> p.gas, crystal |-> p.crystal,
     hp |-> p.hp, sector |-> p.sector]

\* C17: handling SNAPSHOT_RES creates a record for every listed player id
\* the receiver had none of (and for no other id), and leaves credits, ore,
\* gas, crystal, hp and sector of every player it had at its own values,
\* whatever the snapshot says.
C17_ConservativeMerge ==
    [][\A n \in Nodes : Handles(n, "SNAPSHOT_RES") =>
          /\ DOMAIN store'[n].players =
                DOMAIN store[n].players \cup listed_ids(last'.data.body.payload)
          /\ \A pid \in DOMAIN store[n].players :
                game_fields(store'[n].players[pid]) = game_fields(store[n].players[pid])
          /\ \A pid \in DOMAIN store'[n].players \ DOMAIN store[n].players :
                game_fields(store'[n].players[pid]) =
                    [credits |-> 1000, ore |-> 100, gas |-> 100, crystal |-> 100,
                     hp |-> 100, sector |-> 1]]_vars

\* A snapshot brought the origin a player it had no record of, and its own
\* player with other resources, which it kept.
C17_Witness ==
    /\ last.op = "recv" /\ last.node = Origin /\ last.app = "handled"
    /\ last.data.body.type = "SNAPSHOT_RES"
    /\ Foreign \in DOMAIN store[Origin].players
    /\ store[Origin].players[Foreign].updated_ts = now
    /\ \E i \in DOMAIN last.data.body.payload.players :
          /\ Get(last.data.body.payload.players[i], "player_id", "") = sender_id(Origin)
          /\ last.data.body.payload.players[i].credits
                # store[Origin].players[sender_id(Origin)].credits

\* C18 as stated: handling SNAPSHOT_RES overwrites no stored field of a
\* player the receiver already had; the receiver keeps its own nick.
C18_NickKept ==
    [][\A n \in Nodes : Handles(n, "SNAPSHOT_RES") =>
          \A pid \in DOMAIN store[n].players :
              store'[n].players[pid].nick = store[n].players[pid].nick]_vars

\* The envelopes that a step's handler sent, the address of each.
sent(out) == [i \in DOMAIN out |-> [type |-> out[i].raw.body.type, dst |-> out[i].dst]]

same_entities(s, t) ==
    /\ DOMAIN s.players = DOMAIN t.players
    /\ \A pid \in DOMAIN s.players :
          /\ s.players[pid].nick = t.players[pid].nick
          /\ game_fields(s.players[pid]) = game_fields(t.players[pid])
    /\ Len(s.battles) = Len(t.battles)
    /\ \A i \in DOMAIN s.battles :
          [s.battles[i] EXCEPT !.ts = 0] = [t.battles[i] EXCEPT !.ts = 0]

\* C20 as stated: two nodes that hold the same players with the same field
\* values and the same battles compute equal snapshot hashes, whatever the
\* order in which the records were inserted or last touched.
C20_HashOfEntities ==
    \A n, m \in Nodes :
        same_entities(store[n], store[m]) => snapshot_hash(store[n]) = snapshot_hash(store[m])


\* C21: per source address, at most the policy's packets-per-second limit of
\* datagrams pass the rate-limit step within a second, and a datagram that
\* does not pass is dropped with no effect: nothing acknowledged, nothing
\* delivered to the callback, nothing sent.
C21_RateLimit ==
    /\ \A n \in Nodes :
          Len(rate_bucket(mesh[n], ExternalAddr)) <= policy.packets_per_sec
    /\ last.verdict = "rate" =>
          /\ last.out = <<>>
          /\ last.delivered = <<>>
          /\ last.acked = {}


\* C22: no datagram ends the receive loop: whatever arrives, the task of
\* recv_loop is still running afterwards.
C22_LoopSurvives == \A n \in Nodes : task[n].recv_task = "running"


\* The three loops of the node have ended.
stopped(n) == \A t \in DOMAIN task[n] : task[n][t] \in {"done", "raised"}

\* C23: once the shutdown flag is set the three loops end, whether or not a
\* datagram arrives, and from then on the node handles no datagram,
\* retransmits nothing and runs no tick.
C23_LoopsStop ==
    /\ \A n \in Nodes : runtime[n].shutdown ~> stopped(n)
    /\ [][\A n \in Nodes : stopped(n) =>
            /\ stopped(n)'
            /\ ~(/\ last'.node = n
                 /\ last'.op \in {"recv", "retransmit", "tick", "jump", "announce", "beacon"})]_vars

\* The node handled a datagram, was shut down with a packet pending, and its
\* three loops have ended.
C23_Witness ==
    /\ runtime[Origin].shutdown
    /\ stopped(Origin)
    /\ received[Origin] # {}
    /\ DOMAIN mesh[Origin].pending # {}
    /\ net # {}


\* C24: the dashboard's thread is never inside public_state, reading the
\* membership, the store and the mesh and writing the netsplit tracker, while
\* a handler of the event loop is between its updates.
C24_Serialized ==
    \A n \in Nodes : ~(thread[n].handling.kind # "none" /\ thread[n].ui.pc # "idle")


\* The sequence numbers of the envelopes of sender that node n accepted.
received_from(n, sender) == {p[2] : p \in {q \in received[n] : q[1] = sender}}

\* C25: for every remote sender, highest is the greatest sequence number
\* received, the window has no bit above 63, and bit k is set exactly if the
\* sequence highest - k was received; a duplicate and a sequence 64 or more
\* below highest leave highest and the window as they are.
C25_WindowTracksReceived ==
    /\ [](\A n \in Nodes : \A sender \in DOMAIN mesh[n].highest_remote_seq :
            LET highest == mesh[n].highest_remote_seq[sender]
                bits == mesh[n].recv_window[sender]
                got == received_from(n, sender)
            IN /\ got # {}
               /\ highest \in got
               /\ \A s \in got : s <= highest
               /\ bits \subseteq 0..63
               /\ \A k \in 0..63 : k \in bits <=> (highest - k) \in got)
    /\ [][\A n \in Nodes :
            (/\ last'.op = "recv"
             /\ last'.node = n
             /\ last'.verdict = "accepted"
             /\ LET msg == last'.delivered[1]
                IN \/ msg.seq \in received_from(n, msg.sender)
                   \/ Get(mesh[n].highest_remote_seq, msg.sender, 0) - msg.seq >= 64)
            => /\ mesh'[n].highest_remote_seq = mesh[n].highest_remote_seq
               /\ mesh'[n].recv_window = mesh[n].recv_window]_vars

\* After 1, 2 and 65: 2 is bit 63 of the window, 1 has left it; and a
\* duplicate or the sequence 1 has arrived since.
C25_Witness ==
    /\ received_from(Origin, Foreign) = {1, 2, 65}
    /\ mesh[Origin].highest_remote_seq[Foreign] = 65
    /\ mesh[Origin].recv_window[Foreign] = {0, 63}
    /\ Len(mesh[Origin].rate_counter[ExternalAddr]) = 4
    /\ last.delivered[1].seq \in {1, 2}


\* C26: every envelope a node sends through send() to the foreign peer
\* carries, as ack and ack_bits, the highest sequence number the node has
\* received from that peer and its receive window for that peer.
C26_SendCarriesAck ==
    \A i \in DOMAIN last.out :
        (/\ last.op = "recv"
         /\ last.out[i].dst = ExternalAddr
         /\ last.out[i].raw.body.type # "ACK")
        => /\ last.out[i].raw.body.ack = Get(mesh[last.node].highest_remote_seq, Foreign, 0)
           /\ last.out[i].raw.body.ack_bits = Get(mesh[last.node].recv_window, Foreign, {})


\* The sequence numbers of the PendingPackets of node n sent to addr.
pending_to(n, addr) == {seq \in DOMAIN mesh[n].pending : mesh[n].pending[seq].addr = addr}

\* C27: with reliable envelopes outstanding to the other node and to the
\* foreign peer, the acknowledgment that an accepted envelope of the foreign
\* peer carries removes no PendingPacket that was sent to the other node.
C27_AckOnlyOfItsPeer ==
    [][(/\ last'.op = "recv"
        /\ last'.verdict = "accepted"
        /\ last'.src = ExternalAddr
        /\ pending_to(last'.node, ExternalAddr) # {}
        /\ pending_to(last'.node, addr_of(Other(Origin))) # {})
        => last'.acked \cap pending_to(last'.node, addr_of(Other(Origin))) = {}]_vars


\* C28: when a node receives an envelope of its own back (its broadcast
\* reaches its own socket), it sends no ACK for it and removes no
\* PendingPacket.
C28_OwnBroadcastIgnored ==
    (/\ last.op = "recv"
     /\ last.verdict = "accepted"
     /\ last.data.body.sender = sender_id(last.node))
    => /\ sent_of_type(last.out, "ACK") = {}
       /\ last.acked = {}


seqs_of(out) == [i \in DOMAIN out |-> out[i].raw.body.seq]

stored(m, s) == [dst |-> m.pending[s].addr, raw |-> m.pending[s].raw]

\* C32: a pending packet holds the bytes and the destination of its original
\* send and keeps them for as long as it is pending.  A pass of the
\* retransmit loop sends, for each packet it retransmits, exactly those bytes
\* to that destination, once, and counts the retry and the time on that
\* packet; the packets it does not retransmit stay as they were.
C32_RetransmitSameBytes ==
    [][\A n \in Nodes :
        LET old == mesh[n].pending
            new == mesh'[n].pending
            out == IF last'.node = n THEN last'.out ELSE <<>>
            resent(s) == {i \in DOMAIN out : seqs_of(out)[i] = s}
        IN /\ \A s \in DOMAIN old \cap DOMAIN new :
                 /\ new[s].raw = old[s].raw
                 /\ new[s].addr = old[s].addr
           /\ \A s \in DOMAIN new \ DOMAIN old :
                 /\ new[s].raw.body.seq = s
                 /\ \E i \in DOMAIN out : out[i] = stored(mesh'[n], s)
           /\ (last'.op = "retransmit" /\ last'.node = n) =>
                 /\ DOMAIN new \subseteq DOMAIN old
                 /\ \A i \in DOMAIN out :
                       /\ seqs_of(out)[i] \in DOMAIN old \cap DOMAIN new
                       /\ out[i] = stored(mesh[n], seqs_of(out)[i])
                 /\ \A s \in DOMAIN new :
                       IF resent(s) = {} THEN new[s] = old[s]
                       ELSE /\ Cardinality(resent(s)) = 1
                            /\ new[s].retries = old[s].retries + 1
                            /\ new[s].sent_ts = now]_vars

\* A pass retransmitted one of two pending packets, one sent to the other
\* node and one to the broadcast address.
C32_Witness ==
    /\ last.op = "retransmit"
    /\ Len(last.out) = 1
    /\ \E s, t \in DOMAIN mesh[Origin].pending :
          /\ mesh[Origin].pending[s].addr = addr_of(Other(Origin))
          /\ mesh[Origin].pending[t].addr = <<BROADCAST_HOST, LISTEN_PORT>>
          /\ mesh[Origin].pending[s].retries # mesh[Origin].pending[t].retries

\* The last step fanned an event out: the node's own, or the first one of a
\* batch it received, applied and forwards.
FannedOut ==
    \/ last.op \in {"tick", "jump"}
    \/ /\ last.op = "recv" /\ last.app = "handled"
       /\ last.data.body.type = "EVENT_BATCH"
       /\ Len(last.applied) = 1
       /\ events_of(last.data.body)[1].hops < policy.max_event_hops

\* The peers excluded from the fan-out of the last step.
Excluded == IF last.op = "recv" THEN {events_of(last.data.body)[1].sender} ELSE {}

\* The addresses of the eligible peers: healthy within 240 s, not excluded.
EligibleAddrs ==
    {<<last.peers[i].host, last.peers[i].port>> :
        i \in {j \in DOMAIN last.peers :
                  /\ now - last.peers[j].last_seen <= 2400
                  /\ last.peers[j].score > 10
                  /\ last.peers[j].peer_id \notin Excluded}}

\* The destinations of the EVENT_BATCH envelopes the last step sent.
BatchDsts ==
    LET batches == SelectSeq(last.out, LAMBDA o : o.raw.body.type = "EVENT_BATCH")
    IN [i \in DOMAIN batches |-> batches[i].dst]

C33_WitnessExcluded ==
    /\ FannedOut
    /\ last.op = "recv"
    /\ Len(last.peers) = 4
    /\ Cardinality(EligibleAddrs) = 2
    /\ Len(BatchDsts) = 2

\* The EVENT_BATCH envelopes in flight and those the last step sent.
BatchEnvelopes ==
    {d.raw.body : d \in {x \in net : x.raw.body.type = "EVENT_BATCH"}}
        \cup sent_of_type(last.out, "EVENT_BATCH")

\* C34: an EVENT_BATCH envelope, of the originator or of a forwarder, carries
\* the reliable flag if and only if the type of its event is one of the
\* policy's reliable_event_types; so two envelopes with the same event, of
\* whatever nodes, agree on the flag.
C34_ReliableByType ==
    /\ \A msg \in BatchEnvelopes :
          \A i \in DOMAIN events_of(msg) :
              ("reliable" \in msg.flags) <=>
                  (events_of(msg)[i].event_type \in
                      {"battle", "market_trade", "chat", "mission_complete", "tech_upgrade",
                       "jump", "defense_upgrade", "alliance_join", "alliance_create",
                       "alliance_rename", "alliance_leave", "alliance_kick"})
    /\ \A m1, m2 \in BatchEnvelopes :
          (\E i \in DOMAIN events_of(m1) : \E j \in DOMAIN events_of(m2) :
                events_of(m1)[i].event_id = events_of(m2)[j].event_id)
          => (("reliable" \in m1.flags) <=> ("reliable" \in m2.flags))

\* The other node forwarded an event while the originator's envelope with it
\* was still in flight; reliable(r) says which flag the two carry.
Forwarded(r) ==
    /\ last.op = "recv" /\ last.node = Other(Origin)
    /\ \E m1 \in sent_of_type(last.out, "EVENT_BATCH") :
       \E d \in net :
          /\ d.raw.body.type = "EVENT_BATCH"
          /\ d.raw.body.sender = sender_id(Origin)
          /\ m1.sender = sender_id(Other(Origin))
          /\ events_of(m1)[1].event_id = events_of(d.raw.body)[1].event_id
          /\ events_of(m1)[1].hops = 1
          /\ ("reliable" \in m1.flags) = r

\* A forwarded jump went out reliably.
C34_Witness == Forwarded(TRUE)

\* A forwarded resource tick went out without the flag.
C34_WitnessPlain == Forwarded(FALSE)

\* The peers that are healthy at n for the default max_age of 30 s.
healthy_ids(n) == peer_ids(healthy(membership[n], 300))

C35_KeptFresh ==
    (/\ Exchanged
     /\ now >= 2 * AnnouncePeriod
     /\ Foreign \in peer_ids(membership[Origin]))
    => \A n \in Nodes :
          \E i \in DOMAIN membership[n] :
              /\ membership[n][i].peer_id = Foreign
              /\ now - membership[n][i].last_seen <= AnnouncePeriod

\* The members of the wire envelope, the mac apart.
WireFields ==
    {"v", "type", "sender", "seq", "ack", "ack_bits", "ts", "shard", "epoch", "flags", "payload"}

\* The datagram that the last step took off the socket is an unmodified one
\* of a node of the receiver's shard and key.
FromNode ==
    /\ last.op = "recv"
    /\ last.verdict # "rate"
    /\ last.data.kind = "json"
    /\ odd_of(last.data) = EmptyDict
    /\ \E n \in Nodes :
          /\ last.src = addr_of(n)
          /\ last.data.body.sender = sender_id(n)
          /\ last.data.body.shard = shard_of(last.node)
          /\ last.data.mac = sign(shard_key(last.node), last.data.body)

\* C36: a call of send or broadcast transmits one signed envelope with every
\* wire field, the sender's shard and the protocol epoch among them; and an
\* unmodified datagram of a node, delivered to a node of the same shard key,
\* shard and epoch within its rate limit, passes the inbound checks and is
\* handed to the application callback once.
C36_SentIsAccepted ==
    /\ last.op \in {"send", "broadcast"} =>
          /\ Len(last.out) = 1
          /\ DOMAIN last.out[1].raw.body = WireFields
          /\ last.out[1].raw.body.shard = shard_of(last.node)
          /\ last.out[1].raw.body.epoch = policy.protocol_epoch
          /\ last.out[1].raw.mac = sign(shard_key(last.node), last.out[1].raw.body)
    /\ FromNode =>
          /\ last.verdict = "accepted"
          /\ Len(last.delivered) = 1

\* An envelope that make_envelope built, delivered unmodified, is dropped
\* for its epoch.
C36_DroppedForEpoch == FromNode /\ last.verdict = "epoch"

\* C37: the buffer never holds more than max_items records, and every
\* identifier in it is in the seen set.  An add of an identifier that is in
\* the seen set returns false and changes nothing.  Any other add returns
\* true and appends the record at the end, the oldest records leaving first
\* so that at most max_items stay, in the order of their insertion; the
\* identifier joins the seen set, and if the set has then more identifiers
\* than the pruning threshold, it becomes the set of the identifiers in the
\* buffer.
C37_BufferAndSeenSet ==
    /\ [](/\ Len(gossip.buffer.items) <= MaxItems
          /\ \A i \in DOMAIN gossip.buffer.items :
                gossip.buffer.items[i].event_id \in gossip.buffer.seen_ids)
    /\ [][last'.op = "add" =>
            LET e == last'.data.event_id
                old == gossip.buffer
                new == gossip'.buffer
                all == old.items \o <<[event_id |-> e, ts |-> now, payload |-> last'.data.payload]>>
                kept == Min(Len(all), MaxItems)
            IN IF e \in old.seen_ids
               THEN ~last'.data.ret /\ new = old
               ELSE /\ last'.data.ret
                    /\ new.items = [i \in 1..kept |-> all[Len(all) - kept + i]]
                    /\ new.seen_ids =
                          IF Cardinality(old.seen_ids \cup {e}) > PruneThreshold
                          THEN {new.items[i].event_id : i \in DOMAIN new.items}
                          ELSE old.seen_ids \cup {e}]_vars

\* An add has just pruned the seen set: more identifiers were accepted than
\* the threshold, and the set holds those of the full buffer alone.
C37_Witness ==
    /\ last.op = "add"
    /\ last.data.ret
    /\ Cardinality(gossip.accepted) > PruneThreshold
    /\ Len(gossip.buffer.items) = MaxItems
    /\ Cardinality(gossip.buffer.seen_ids) = MaxItems

\* C38: add returns true at most once for an event identifier, whatever
\* was evicted from the buffer or pruned from the seen set in between.
C38_AcceptedOnce ==
    [][(last'.op = "add" /\ last'.data.ret) => last'.data.event_id \notin gossip.accepted]_vars

====
